---- MODULE Spec2Model ----
(***************************************************************************)
(* Verification model of the Tour API gateway of the My Trip application:  *)
(*   - fetchTourAPI (lib/api/tour-api.ts): per-attempt timeout, retry with *)
(*     exponential backoff, HTTP-status and result-code translation;       *)
(*   - the statistics aggregator (lib/api/stats-api.ts): parallel probes   *)
(*     collected with Promise.allSettled, ranking and summary;             *)
(*   - the gateway functions of tour-api.ts built on fetchTourAPI          *)
(*     (searchKeyword, getDetailCommon, getDetailIntro, getDetailImage,    *)
(*     getDetailPetTour) and the envelope normalisation extractItems;      *)
(*   - the filter codec (lib/utils/filter.ts): buildFilterQuery and        *)
(*     parseFilterParams, with the form-urlencoded query string between    *)
(*     them.                                                               *)
(*                                                                         *)
(*   - the coordinate conversion convertKATECToWGS84 (lib/types/tour.ts)   *)
(*     and validateCoordinateConversion (lib/utils/naver-map-metrics.ts);  *)
(*   - the bookmark data access (lib/api/supabase-api.ts), the bookmark    *)
(*     server actions (actions/bookmark.ts) and BookmarkButton;            *)
(*   - the TourFilters handlers, which rewrite the URL query through the   *)
(*     filter codec;                                                       *)
(*   - the three bounded metrics stores.                                   *)
(*                                                                         *)
(* A string is modelled as the sequence of its characters; the names of    *)
(* query keys and of enumeration values ("keyword", "latest", "true") are  *)
(* one element each, as is a percent escape ("%2C").                       *)
(*                                                                         *)
(* Error messages are Korean sentences in the source.  A message is        *)
(* modelled as the sequence of its words, written in ASCII; the word       *)
(* "NETWORK" stands for the substring that message.includes() looks for.   *)
(***************************************************************************)
EXTENDS Integers, Sequences, FiniteSets, TLC

(***************************************************************************)
(* Program constants (tour-api.ts)                                         *)
(***************************************************************************)
MAX_RETRIES == 3
RETRY_DELAY == 1000
TIMEOUT == 10000

\* maxMetrics of APIMetricsStore, NaverMapMetricsStore and
\* PerformanceMetricsStore
API_MAX_METRICS == 100
MAP_MAX_METRICS == 100
PERFORMANCE_MAX_METRICS == 50

(***************************************************************************)
(* Bounds of the model                                                     *)
(***************************************************************************)
\* largest value of the `retries` argument of fetchTourAPI that is explored
MaxRetriesArg == 3
\* largest number of regions getAreaCode returns
MaxRegions == 4
\* largest totalCount a probe reports
MaxCount == 1
\* the timeout of an attempt, in ticks of the clock (a tick is TIMEOUT / TicksPerTimeout ms)
TicksPerTimeout == 2
\* longest time, in ticks, that reading a response body goes on past the timeout
MaxOverrunTicks == 2
\* longest keyword passed to searchKeyword
MaxKeywordLen == 3
\* largest number of objects in the item array of an envelope
MaxItems == 3
\* longest keyword of a FilterParams given to buildFilterQuery
MaxFilterKeywordLen == 1
\* largest page number of a FilterParams
MaxPage == 10
\* longest page parameter of a typed URL
MaxPageParamLen == 3
\* how far around the limits of the raw coordinate range the inputs are taken
MaxOffset == 1
\* Longest list of content ids handed to removeBookmarksBatch.
MaxBatch == 2
\* Number of result pages TourPagination offers.
MaxTotalPages == 2
\* Metrics added to a store beyond its capacity.
MaxOverflow == 2
\* Metrics stores holding metrics at the same time.
MaxBusyStores == 1

VARIABLES
    fpc,         \* position of the fetchTourAPI call: idle, fetching, reading, delaying, done
    retries,     \* the `retries` argument
    attempt,     \* the loop counter `attempt`
    fetchCalls,  \* number of fetch() calls issued (network attempts)
    timerArmed,  \* fetchWithTimeout's abort timer is pending
    elapsed,     \* time since the current attempt's request was sent, in ticks
    delays,      \* the delay(ms) calls made so far, in order
    history,     \* what the transport answered on each attempt, in order
    fResult      \* the settled value of the fetchTourAPI promise

fetchVars == <<fpc, retries, attempt, fetchCalls, timerArmed, elapsed, delays, history, fResult>>

VARIABLES
    spc,         \* position of the running statistics function: idle, areas, probing, done
    job,         \* which one runs: "region" (fetchRegionStatsInternal) or "type" (fetchTypeStatsInternal)
    ids,         \* the region codes / content type ids probed, in input order
    results,     \* per input position, the state of that probe's promise
    sOut         \* the settled value of the statistics function's promise

statsVars == <<spc, job, ids, results, sOut>>

VARIABLES
    sumPc,       \* position of getStatsSummary: idle, awaiting, done
    regionP,     \* the promise of getRegionStats()
    typeP,       \* the promise of getTypeStats()
    summary      \* the settled value of getStatsSummary's promise

summaryVars == <<sumPc, regionP, typeP, summary>>

VARIABLES
    gPc,         \* position of the gateway call: idle, awaiting, done
    gOp,         \* the gateway function called
    gArgs,       \* its arguments
    gNetCalls,   \* number of fetchTourAPI calls it has made
    gSettled,    \* how its fetchTourAPI call settled: the envelope or the error
    gOut         \* the settled value of the gateway function's promise

gatewayVars == <<gPc, gOp, gArgs, gNetCalls, gSettled, gOut>>

VARIABLES
    cPc,         \* position of the filter codec: idle, built, url, parsed
    cFrom,       \* where the URL came from: "state" (buildFilterQuery) or "url" (typed)
    cState,      \* the FilterParams given to buildFilterQuery
    cQuery,      \* the query string buildFilterQuery returned
    cParams,     \* the searchParams object given to parseFilterParams
    cParsed      \* the FilterParams parseFilterParams returned

codecVars == <<cPc, cFrom, cState, cQuery, cParams, cParsed>>

VARIABLES
    kPc,         \* position of the coordinate conversion: idle, done
    kOp,         \* the function called: "convert" or "validate"
    kRaw,        \* the raw integers the upstream encoded in mapx and mapy, when it did
    kArgs,       \* the mapx and mapy strings passed
    kOut         \* what the function returned

coordVars == <<kPc, kOp, kRaw, kArgs, kOut>>

\* Bookmarks: the rows of the bookmarks table, the last call with its
\* answer, the state of one BookmarkButton and the server actions whose
\* answer the button is waiting for.
VARIABLES
    bookmarks,
    bLast,
    button,
    awaited

bookmarkVars == <<bookmarks, bLast, button, awaited>>

\* TourFilters: the query string of the current URL and the last handler
\* that pushed a URL, with the keyword and page it found.
VARIABLES
    fQuery,
    fLast

filterVars == <<fQuery, fLast>>

\* Metrics stores: NODE_ENV of the process, the metrics array of each
\* store, and the number of add calls each store saw since its last clear.
VARIABLES
    nodeEnv,
    metrics,
    added

metricsVars == <<nodeEnv, metrics, added>>

vars == <<fetchVars, statsVars, summaryVars, gatewayVars, codecVars, coordVars, bookmarkVars, filterVars, metricsVars>>

(***************************************************************************)
(* Errors and messages                                                     *)
(***************************************************************************)
Err(name, message) == [name |-> name, message |-> message]
NoError == Err("", <<>>)

\* lines 144-156: messages of the HTTP status branch
MsgApiFailed    == <<"API", "REQUEST", "FAILED">>
MsgBadRequest   == <<"BAD", "REQUEST", "CHECK", "PARAMETERS">>
MsgUnauthorized == <<"AUTHENTICATION", "FAILED", "CHECK", "API", "KEY">>
MsgForbidden    == <<"ACCESS", "DENIED">>
MsgNotFound     == <<"RESOURCE", "NOT", "FOUND">>
MsgServerError  == <<"SERVER", "ERROR", "TRY", "LATER">>
MsgNetwork      == <<"NETWORK", "CONNECTION", "FAILED", "CHECK", "INTERNET">>
\* lines 166-179: messages of the result-code branch
MsgApiError     == <<"API", "ERROR", "OCCURRED">>
MsgMissingParam == <<"REQUIRED", "PARAMETER", "MISSING">>
MsgInvalidParam == <<"INVALID", "PARAMETER", "VALUE">>
MsgAccessDenied == <<"SERVICE", "ACCESS", "DENIED">>
MsgQuota        == <<"DAILY", "QUOTA", "EXCEEDED">>
MsgMaintenance  == <<"SERVICE", "UNDER", "MAINTENANCE">>
\* line 197
MsgTimeout      == <<"REQUEST", "TIMED", "OUT", "TRY", "LATER">>
\* messages of errors raised by the runtime
MsgAborted      == <<"THE", "OPERATION", "WAS", "ABORTED">>
MsgFetchFailed  == <<"FETCH", "FAILED">>
MsgNotDefined   == <<"ERROR", "IS", "NOT", "DEFINED">>
MsgBadJson      == <<"UNEXPECTED", "TOKEN", "IN", "JSON">>
MsgUndefProp    == <<"CANNOT", "READ", "PROPERTIES", "OF", "UNDEFINED">>

\* String.prototype.includes on a message, word-wise
Includes(message, word) == \E i \in 1..Len(message) : message[i] = word

(***************************************************************************)
(* What the transport can answer on one attempt                            *)
(***************************************************************************)
\* status 0 is the status of a Response of type "error"/"opaque"; line 155 tests for it
HttpStatuses == {0, 200, 304, 400, 401, 402, 403, 404, 429, 500, 503}
ResponseOk(status) == status >= 200 /\ status <= 299

ResultCodes == {"0000", "01", "02", "03", "04", "05", "99"}
\* resultMsg texts of the upstream header: empty, a plain one, one with the word
ResultMsgs == {<<>>, <<"SERVICE", "ERROR">>, <<"NETWORK", "ERROR">>}

Event(kind, status, code, msg) ==
    [kind |-> kind, status |-> status, code |-> code, msg |-> msg]
EvAbort      == Event("abort", -1, "", <<>>)        \* the abort timer fired
EvReject     == Event("reject", -1, "", <<>>)       \* fetch rejected: transport failure
EvHttp(s)    == Event("http", s, "", <<>>)          \* a response with !response.ok
EvBadJson    == Event("badjson", 200, "", <<>>)     \* response.json() rejected
EvNoHeader   == Event("noheader", 200, "", <<>>)    \* parsed body without response.header
EvBody(c, m) == Event("body", 200, c, m)            \* parsed body with a header

(***************************************************************************)
(* fetchTourAPI: pure parts                                                *)
(***************************************************************************)
RECURSIVE Pow2(_)
Pow2(n) == IF n <= 0 THEN 1 ELSE 2 * Pow2(n - 1)

BackoffDelayLinear(k) == RETRY_DELAY * (k + 1)
\* lines 192, 226: RETRY_DELAY * Math.pow(2, attempt)
BackoffDelay(k) == RETRY_DELAY * Pow2(k)

HttpErrorRetryServer(status) ==
    IF status = 400 THEN Err("Error", MsgBadRequest)
    ELSE IF status = 401 THEN Err("Error", MsgUnauthorized)
    ELSE IF status = 403 THEN Err("Error", MsgForbidden)
    ELSE IF status = 404 THEN Err("Error", MsgNotFound)
    ELSE IF status >= 500 \/ status = 0 THEN Err("Error", MsgNetwork)
    ELSE Err("ReferenceError", MsgNotDefined)
\* lines 142-159: the error thrown for a response with !response.ok.  In the
\* last branch `error` is not bound inside the try block, so evaluating
\* `error instanceof TypeError` (reached when status is not 0) throws a
\* ReferenceError in place of the Error the branch was building.
HttpError(status) ==
    IF status = 400 THEN Err("Error", MsgBadRequest)
    ELSE IF status = 401 THEN Err("Error", MsgUnauthorized)
    ELSE IF status = 403 THEN Err("Error", MsgForbidden)
    ELSE IF status = 404 THEN Err("Error", MsgNotFound)
    ELSE IF status >= 500 THEN Err("Error", MsgServerError)
    ELSE IF status = 0 THEN Err("Error", MsgNetwork)
    ELSE Err("ReferenceError", MsgNotDefined)

\* lines 164-183: the error thrown for a parsed body whose resultCode is not "0000"
BodyError(code, msg) ==
    IF code = "01" THEN Err("Error", MsgMissingParam)
    ELSE IF code = "02" THEN Err("Error", MsgInvalidParam)
    ELSE IF code = "03" THEN Err("Error", MsgAccessDenied)
    ELSE IF code = "04" THEN Err("Error", MsgQuota)
    ELSE IF code = "05" THEN Err("Error", MsgMaintenance)
    ELSE Err("Error", IF msg = <<>> THEN MsgApiError ELSE msg)

\* line 188
IsAbortError(error) == error.name = "AbortError"

IsNetworkErrorMessageOnly(error) == Includes(error.message, "NETWORK")
\* lines 210-211
IsNetworkError(error) ==
    error.name = "TypeError" \/ Includes(error.message, "NETWORK")

Retry(ms) == [retry |-> TRUE, delayMs |-> ms, error |-> NoError]
ThrowGeneric(error) ==
    [retry |-> FALSE, delayMs |-> 0,
     error |-> Err("Error", <<"UNEXPECTED", "ERROR">>)]
Throw(error) == [retry |-> FALSE, delayMs |-> 0, error |-> error]

\* the catch block of the earlier tour-api.ts: everything but a TypeError is retried
CatchRetryAll(error, k, n) ==
    IF k = n \/ error.name = "TypeError"
    THEN Throw(error)
    ELSE Retry(BackoffDelay(k))
\* lines 186-228: the catch block, for the error of attempt k of a call with n retries
Catch(error, k, n) ==
    IF IsAbortError(error)
    THEN IF k < n
         THEN Retry(BackoffDelay(k))
         ELSE Throw(Err("TimeoutError", MsgTimeout))
    ELSE IF k = n \/ (~IsNetworkError(error) /\ ~Includes(error.message, "NETWORK"))
         THEN Throw(error)
         ELSE Retry(BackoffDelay(k))

(***************************************************************************)
(* fetchTourAPI: the call as a state machine                               *)
(***************************************************************************)
FetchInit ==
    /\ fpc = "idle"
    /\ retries = 0
    /\ attempt = 0
    /\ fetchCalls = 0
    /\ timerArmed = FALSE
    /\ elapsed = 0
    /\ delays = <<>>
    /\ history = <<>>
    /\ fResult = [kind |-> "none", error |-> NoError]

\* the error of the current attempt reaches the catch block (lines 186-228)
Caught(ev, error) ==
    LET d == Catch(error, attempt, retries) IN
    /\ history' = Append(history, ev)
    /\ timerArmed' = FALSE
    /\ IF d.retry
       THEN /\ fpc' = "delaying"
            /\ delays' = Append(delays, d.delayMs)
            /\ fResult' = fResult
       ELSE /\ fpc' = "done"
            /\ delays' = delays
            /\ fResult' = [kind |-> "error", error |-> d.error]
    /\ UNCHANGED <<retries, attempt, fetchCalls, elapsed>>

\* lines 111-140: the call; the first loop iteration sends the request
FetchTourAPI(n) ==
    /\ fpc = "idle"
    /\ retries' = n
    /\ attempt' = 0
    /\ fetchCalls' = 1
    /\ timerArmed' = TRUE
    /\ elapsed' = 0
    /\ fpc' = "fetching"
    /\ UNCHANGED <<delays, history, fResult>>
    /\ UNCHANGED <<statsVars, summaryVars, gatewayVars, codecVars, coordVars, bookmarkVars, filterVars, metricsVars>>

\* lines 86, 95-97: the abort timer fires while fetch is pending; fetch rejects with AbortError
FetchAborted ==
    /\ fpc = "fetching"
    /\ timerArmed
    /\ elapsed = TicksPerTimeout
    /\ Caught(EvAbort, Err("AbortError", MsgAborted))
    /\ UNCHANGED <<statsVars, summaryVars, gatewayVars, codecVars, coordVars, bookmarkVars, filterVars, metricsVars>>

\* lines 95-97: fetch rejects with a TypeError (DNS, connection refused)
FetchRejected ==
    /\ fpc = "fetching"
    /\ Caught(EvReject, Err("TypeError", MsgFetchFailed))
    /\ UNCHANGED <<statsVars, summaryVars, gatewayVars, codecVars, coordVars, bookmarkVars, filterVars, metricsVars>>

\* lines 89-94, 142-161: fetch resolves with a response of the given status
FetchResponded(status) ==
    /\ fpc = "fetching"
    /\ IF ResponseOk(status)
       THEN /\ fpc' = "reading"
            /\ timerArmed' = FALSE
            /\ UNCHANGED <<retries, attempt, fetchCalls, elapsed, delays, history, fResult>>
       ELSE Caught(EvHttp(status), HttpError(status))
    /\ UNCHANGED <<statsVars, summaryVars, gatewayVars, codecVars, coordVars, bookmarkVars, filterVars, metricsVars>>

\* line 161: response.json() rejects, the body is no JSON
JsonRejected ==
    /\ fpc = "reading"
    /\ Caught(EvBadJson, Err("SyntaxError", MsgBadJson))
    /\ UNCHANGED <<statsVars, summaryVars, gatewayVars, codecVars, coordVars, bookmarkVars, filterVars, metricsVars>>

\* line 164: the parsed body has no response.header; reading resultCode throws a TypeError
JsonWithoutHeader ==
    /\ fpc = "reading"
    /\ Caught(EvNoHeader, Err("TypeError", MsgUndefProp))
    /\ UNCHANGED <<statsVars, summaryVars, gatewayVars, codecVars, coordVars, bookmarkVars, filterVars, metricsVars>>

\* lines 161-185: response.json() resolves with a body carrying a header
JsonResolved(code, msg) ==
    /\ fpc = "reading"
    /\ IF code # "0000"
       THEN Caught(EvBody(code, msg), BodyError(code, msg))
       ELSE /\ fpc' = "done"
            /\ history' = Append(history, EvBody(code, msg))
            /\ fResult' = [kind |-> "ok", error |-> NoError]
            /\ UNCHANGED <<retries, attempt, fetchCalls, timerArmed, elapsed, delays>>
    /\ UNCHANGED <<statsVars, summaryVars, gatewayVars, codecVars, coordVars, bookmarkVars, filterVars, metricsVars>>

\* lines 193-194, 227, 138-140: the backoff delay elapses; next iteration sends the request
DelayElapsed ==
    /\ fpc = "delaying"
    /\ attempt' = attempt + 1
    /\ IF attempt + 1 <= retries
       THEN /\ fpc' = "fetching"
            /\ fetchCalls' = fetchCalls + 1
            /\ timerArmed' = TRUE
            /\ elapsed' = 0
            /\ fResult' = fResult
       ELSE \* line 231
            /\ fpc' = "done"
            /\ fetchCalls' = fetchCalls
            /\ timerArmed' = FALSE
            /\ elapsed' = elapsed
            /\ fResult' = [kind |-> "error", error |-> Err("Error", <<"UNEXPECTED", "ERROR">>)]
    /\ UNCHANGED <<retries, delays, history>>
    /\ UNCHANGED <<statsVars, summaryVars, gatewayVars, codecVars, coordVars, bookmarkVars, filterVars, metricsVars>>

\* time passes while an attempt is in flight.  While fetch is pending the
\* abort timer of line 85 is armed and fires when the timeout has elapsed,
\* so the clock does not pass the timeout there; once fetch has resolved the
\* timer is cleared (line 93) and response.json() (line 161) is awaited with
\* no timer, for as long as the body takes to arrive.
Tick ==
    /\ fpc \in {"fetching", "reading"}
    /\ IF timerArmed
       THEN elapsed < TicksPerTimeout
       ELSE elapsed < TicksPerTimeout + MaxOverrunTicks
    /\ elapsed' = elapsed + 1
    /\ UNCHANGED <<fpc, retries, attempt, fetchCalls, timerArmed, delays, history, fResult>>
    /\ UNCHANGED <<statsVars, summaryVars, gatewayVars, codecVars, coordVars, bookmarkVars, filterVars, metricsVars>>

FetchNext ==
    \/ \E n \in 0..MaxRetriesArg : FetchTourAPI(n)
    \/ Tick
    \/ FetchAborted
    \/ FetchRejected
    \/ \E s \in HttpStatuses : FetchResponded(s)
    \/ JsonRejected
    \/ JsonWithoutHeader
    \/ \E c \in ResultCodes, m \in ResultMsgs : JsonResolved(c, m)
    \/ DelayElapsed

(***************************************************************************)
(* Statistics aggregator (stats-api.ts): pure parts                        *)
(***************************************************************************)
\* stats-api.ts line 27; the ids are written as numbers
CONTENT_TYPE_IDS == <<12, 14, 15, 25, 28, 32, 38, 39>>

Counts == 0..MaxCount

\* a RegionStats / TypeStats entry: the code or id probed and its count
Entry(id, count) == [id |-> id, count |-> count]
\* the null a probe returns from its catch block (lines 70, 142)
Null == Entry(-1, -1)

Pending == [status |-> "pending", value |-> Null]
Fulfilled(value) == [status |-> "fulfilled", value |-> value]

\* the promise of a statistics function or of the summary
Unsettled == [kind |-> "none", list |-> <<>>]
Resolved(list) == [kind |-> "ok", list |-> list]
Rejected == [kind |-> "error", list |-> <<>>]

\* lines 76-87, 148-159: results.forEach pushes the non-null fulfilled values, by index
CollectFulfilled(res) ==
    LET kept == SelectSeq(res, LAMBDA r : r.status = "fulfilled" /\ r.value # Null)
    IN  [i \in 1..Len(kept) |-> kept[i].value]

\* insert e into the descending list after every element that does not compare after it
RECURSIVE InsertDesc(_, _)
InsertDesc(sorted, e) ==
    IF sorted = <<>> THEN <<e>>
    ELSE IF Head(sorted).count >= e.count
         THEN <<Head(sorted)>> \o InsertDesc(Tail(sorted), e)
         ELSE <<e>> \o sorted

RECURSIVE InsertDescFront(_, _)
InsertDescFront(sorted, e) ==
    IF sorted = <<>> THEN <<e>>
    ELSE IF Head(sorted).count > e.count
         THEN <<Head(sorted)>> \o InsertDescFront(Tail(sorted), e)
         ELSE <<e>> \o sorted

RECURSIVE SortUnstable(_)
SortUnstable(list) ==
    IF list = <<>> THEN <<>>
    ELSE InsertDescFront(SortUnstable(SubSeq(list, 1, Len(list) - 1)), list[Len(list)])

\* lines 102, 169: Array.prototype.sort((a, b) => b.count - a.count), a stable sort
RECURSIVE SortByCountDesc(_)
SortByCountDesc(list) ==
    IF list = <<>> THEN <<>>
    ELSE InsertDesc(SortByCountDesc(SubSeq(list, 1, Len(list) - 1)), list[Len(list)])

RegionStatsReturnEmpty(res) == Resolved(SortByCountDesc(CollectFulfilled(res)))
\* lines 76-102: what fetchRegionStatsInternal settles with once all probes settled
RegionStatsReturn(res) ==
    LET regionStats == CollectFulfilled(res) IN
    IF Len(regionStats) = 0
    THEN Rejected
    ELSE Resolved(SortByCountDesc(regionStats))

\* lines 148-169: what fetchTypeStatsInternal settles with once all probes settled
TypeStatsReturn(res) == Resolved(SortByCountDesc(CollectFulfilled(res)))

(***************************************************************************)
(* Statistics aggregator: one run of a statistics function                 *)
(***************************************************************************)
StatsInit ==
    /\ spc = "idle"
    /\ job = "none"
    /\ ids = <<>>
    /\ results = <<>>
    /\ sOut = Unsettled

\* lines 34-39: fetchRegionStatsInternal starts and awaits getAreaCode()
FetchRegionStatsInternal ==
    /\ spc = "idle"
    /\ job' = "region"
    /\ spc' = "areas"
    /\ UNCHANGED <<ids, results, sOut>>
    /\ UNCHANGED <<fetchVars, summaryVars, gatewayVars, codecVars, coordVars, bookmarkVars, filterVars, metricsVars>>

\* lines 39, 103-108: getAreaCode() rejects; the error is rethrown
AreaCodeRejected ==
    /\ spc = "areas"
    /\ spc' = "done"
    /\ sOut' = Rejected
    /\ UNCHANGED <<job, ids, results>>
    /\ UNCHANGED <<fetchVars, summaryVars, gatewayVars, codecVars, coordVars, bookmarkVars, filterVars, metricsVars>>

\* lines 39-75: getAreaCode() resolves with n areas; one probe per area is started
AreaCodeResolved(n) ==
    /\ spc = "areas"
    /\ ids' = [i \in 1..n |-> i]
    /\ IF n = 0
       THEN /\ spc' = "done"
            /\ sOut' = Resolved(<<>>)
            /\ results' = <<>>
       ELSE /\ spc' = "probing"
            /\ sOut' = sOut
            /\ results' = [i \in 1..n |-> Pending]
    /\ UNCHANGED job
    /\ UNCHANGED <<fetchVars, summaryVars, gatewayVars, codecVars, coordVars, bookmarkVars, filterVars, metricsVars>>

\* lines 116-147: fetchTypeStatsInternal starts one probe per content type
FetchTypeStatsInternal ==
    /\ spc = "idle"
    /\ job' = "type"
    /\ ids' = CONTENT_TYPE_IDS
    /\ results' = [i \in 1..Len(CONTENT_TYPE_IDS) |-> Pending]
    /\ spc' = "probing"
    /\ UNCHANGED sOut
    /\ UNCHANGED <<fetchVars, summaryVars, gatewayVars, codecVars, coordVars, bookmarkVars, filterVars, metricsVars>>

\* lines 51-61, 123-133: the probe at position i gets its totalCount
ProbeResolved(i, c) ==
    /\ spc = "probing"
    /\ results[i].status = "pending"
    /\ results' = [results EXCEPT ![i] = Fulfilled(Entry(ids[i], c))]
    /\ UNCHANGED <<spc, job, ids, sOut>>
    /\ UNCHANGED <<fetchVars, summaryVars, gatewayVars, codecVars, coordVars, bookmarkVars, filterVars, metricsVars>>

\* lines 62-71, 134-143: getAreaBasedList throws at position i; the probe returns null
ProbeFailed(i) ==
    /\ spc = "probing"
    /\ results[i].status = "pending"
    /\ results' = [results EXCEPT ![i] = Fulfilled(Null)]
    /\ UNCHANGED <<spc, job, ids, sOut>>
    /\ UNCHANGED <<fetchVars, summaryVars, gatewayVars, codecVars, coordVars, bookmarkVars, filterVars, metricsVars>>

\* lines 75-102, 147-169: Promise.allSettled resolves; collect, check, sort, return
AllSettled ==
    /\ spc = "probing"
    /\ \A i \in 1..Len(results) : results[i].status = "fulfilled"
    /\ spc' = "done"
    /\ sOut' = IF job = "region" THEN RegionStatsReturn(results) ELSE TypeStatsReturn(results)
    /\ UNCHANGED <<job, ids, results>>
    /\ UNCHANGED <<fetchVars, summaryVars, gatewayVars, codecVars, coordVars, bookmarkVars, filterVars, metricsVars>>

StatsNext ==
    \/ FetchRegionStatsInternal
    \/ AreaCodeRejected
    \/ \E n \in 0..MaxRegions : AreaCodeResolved(n)
    \/ FetchTypeStatsInternal
    \/ \E i \in 1..Len(results), c \in Counts : ProbeResolved(i, c)
    \/ \E i \in 1..Len(results) : ProbeFailed(i)
    \/ AllSettled

(***************************************************************************)
(* getStatsSummary (stats-api.ts lines 219-270)                            *)
(***************************************************************************)
\* the totalCount the upstream reports for the content type at position i
UpstreamTypeCount(i) == i % (MaxCount + 1)

\* what the probes of one fetchRegionStatsInternal run can settle with
RegionProbeResults(n) ==
    { [i \in 1..n |-> IF v[i] < 0 THEN Fulfilled(Null) ELSE Fulfilled(Entry(i, v[i]))] :
        v \in [1..n -> {-1} \cup Counts] }

\* what the probes of one fetchTypeStatsInternal run can settle with: the
\* probes at positions a..b fail (none, one, a block, or all of them)
TypeProbeResults ==
    { [i \in 1..Len(CONTENT_TYPE_IDS) |->
            IF i \in a..b THEN Fulfilled(Null)
            ELSE Fulfilled(Entry(CONTENT_TYPE_IDS[i], UpstreamTypeCount(i)))] :
        a \in 1..Len(CONTENT_TYPE_IDS), b \in 0..Len(CONTENT_TYPE_IDS) }

RECURSIVE SumCounts(_)
\* line 236: regionStats.reduce((sum, region) => sum + region.count, 0)
SumCounts(list) ==
    IF list = <<>> THEN 0 ELSE Head(list).count + SumCounts(Tail(list))

Top3SliceTwo(list) == SubSeq(list, 1, IF Len(list) < 2 THEN Len(list) ELSE 2)

\* lines 239, 242: slice(0, 3)
Top3(list) == SubSeq(list, 1, IF Len(list) < 3 THEN Len(list) ELSE 3)

NoSummary == [kind |-> "none", totalCount |-> 0, topRegions |-> <<>>, topTypes |-> <<>>]
SummaryError == [kind |-> "error", totalCount |-> 0, topRegions |-> <<>>, topTypes |-> <<>>]

\* lines 224-263: the value getStatsSummary settles with, given the two settled promises
SummaryReturn(region, type) ==
    IF region.kind = "error" \/ type.kind = "error"
    THEN SummaryError
    ELSE IF Len(region.list) = 0 /\ Len(type.list) = 0
         THEN SummaryError
         ELSE [kind |-> "ok",
               totalCount |-> SumCounts(region.list),
               topRegions |-> Top3(region.list),
               topTypes |-> Top3(type.list)]

SummaryInit ==
    /\ sumPc = "idle"
    /\ regionP = Unsettled
    /\ typeP = Unsettled
    /\ summary = NoSummary

\* lines 219-227: both statistics functions are started, Promise.all is awaited
GetStatsSummary ==
    /\ sumPc = "idle"
    /\ sumPc' = "awaiting"
    /\ UNCHANGED <<regionP, typeP, summary>>
    /\ UNCHANGED <<fetchVars, statsVars, gatewayVars, codecVars, coordVars, bookmarkVars, filterVars, metricsVars>>

\* line 225: getRegionStats() rejects because getAreaCode() rejected
RegionStatsAreaCodeRejected ==
    /\ sumPc # "idle"
    /\ regionP = Unsettled
    /\ regionP' = Rejected
    /\ UNCHANGED <<sumPc, typeP, summary>>
    /\ UNCHANGED <<fetchVars, statsVars, gatewayVars, codecVars, coordVars, bookmarkVars, filterVars, metricsVars>>

\* line 225: getRegionStats() settles after probing n regions (n = 0: no probe)
RegionStatsSettled(n, res) ==
    /\ sumPc # "idle"
    /\ regionP = Unsettled
    /\ regionP' = IF n = 0 THEN Resolved(<<>>) ELSE RegionStatsReturn(res)
    /\ UNCHANGED <<sumPc, typeP, summary>>
    /\ UNCHANGED <<fetchVars, statsVars, gatewayVars, codecVars, coordVars, bookmarkVars, filterVars, metricsVars>>

\* line 226: getTypeStats() settles after its eight probes
TypeStatsSettled(res) ==
    /\ sumPc # "idle"
    /\ typeP = Unsettled
    /\ typeP' = TypeStatsReturn(res)
    /\ UNCHANGED <<sumPc, regionP, summary>>
    /\ UNCHANGED <<fetchVars, statsVars, gatewayVars, codecVars, coordVars, bookmarkVars, filterVars, metricsVars>>

\* lines 224-269: Promise.all settles (first rejection, or both fulfilled) and
\* getStatsSummary runs to its return or throw
SummaryContinue ==
    /\ sumPc = "awaiting"
    /\ \/ regionP.kind = "error"
       \/ typeP.kind = "error"
       \/ (regionP.kind = "ok" /\ typeP.kind = "ok")
    /\ sumPc' = "done"
    /\ summary' = SummaryReturn(regionP, typeP)
    /\ UNCHANGED <<regionP, typeP>>
    /\ UNCHANGED <<fetchVars, statsVars, gatewayVars, codecVars, coordVars, bookmarkVars, filterVars, metricsVars>>

SummaryNext ==
    \/ GetStatsSummary
    \/ RegionStatsAreaCodeRejected
    \/ \E n \in 0..MaxRegions : \E res \in RegionProbeResults(n) : RegionStatsSettled(n, res)
    \/ \E res \in TypeProbeResults : TypeStatsSettled(res)
    \/ SummaryContinue

(***************************************************************************)
(* Gateway functions of tour-api.ts (lines 238-245, 324-496)               *)
(***************************************************************************)
\* JavaScript values: what the `item` field of an envelope holds and what a
\* gateway function returns.  An object is named by a number in 1..MaxItems.
JsUndefined == [tag |-> "undefined", obj |-> 0, arr |-> <<>>]
JsNull == [tag |-> "null", obj |-> 0, arr |-> <<>>]
JsObject(o) == [tag |-> "object", obj |-> o, arr |-> <<>>]
JsArray(a) == [tag |-> "array", obj |-> 0, arr |-> a]

\* string arguments: undefined, or a sequence of characters
NoString == [defined |-> FALSE, chars |-> <<>>]
Str(chars) == [defined |-> TRUE, chars |-> chars]
\* lines 331, 374, 411, 414, 447, 470: !s for a string argument
Blank(s) == ~s.defined \/ s.chars = <<>>
WhiteSpace == {" ", "\t"}

RECURSIVE TrimStart(_)
TrimStart(chars) ==
    IF chars # <<>> /\ Head(chars) \in WhiteSpace THEN TrimStart(Tail(chars)) ELSE chars
TrimNothing(chars) == chars
\* lines 331, 336: String.prototype.trim
Trim(chars) ==
    LET RECURSIVE TrimEnd(_)
        TrimEnd(s) ==
            IF s # <<>> /\ s[Len(s)] \in WhiteSpace
            THEN TrimEnd(SubSeq(s, 1, Len(s) - 1))
            ELSE s
    IN  TrimEnd(TrimStart(chars))

\* the parsed body fetchTourAPI resolves with: response.body.items is
\* "missing", the "empty" string, or "present" as an object with an `item`
\* field; totalCount -1 stands for an absent field
Envelope(items, item, totalCount) == [items |-> items, item |-> item, totalCount |-> totalCount]
Envelopes ==
    LET Items == 1..MaxItems
        ItemArrays == UNION { [1..n -> Items] : n \in 0..MaxItems }
        TotalCounts == {-1, MaxItems}
    IN  { Envelope(i, JsUndefined, t) : i \in {"missing", "empty", "present"}, t \in TotalCounts }
        \cup { Envelope("present", JsObject(o), t) : o \in Items, t \in TotalCounts }
        \cup { Envelope("present", JsArray(a), t) : a \in ItemArrays, t \in TotalCounts }

ExtractItemsNoWrap(data) == IF data.items = "present" THEN data.item.arr ELSE <<>>
\* lines 238-245
ExtractItems(data) ==
    LET items == IF data.items = "present" THEN data.item ELSE JsUndefined IN
    IF items.tag \notin {"object", "array"} THEN <<>>
    ELSE IF items.tag = "array" THEN items.arr ELSE <<items.obj>>

\* the errors a fetchTourAPI call can reject with
FetchTourAPIErrors ==
    {Err("TimeoutError", MsgTimeout), Err("TypeError", MsgFetchFailed),
     Err("SyntaxError", MsgBadJson), Err("TypeError", MsgUndefProp)}
    \cup { HttpError(s) : s \in {h \in HttpStatuses : ~ResponseOk(h)} }
    \cup { BodyError(c, m) : c \in ResultCodes \ {"0000"}, m \in ResultMsgs }

\* the settled value of a gateway function: pending ("none"), a returned value
\* ("ok", with the totalCount searchKeyword returns beside it) or a thrown error
Outcome(kind, value, totalCount, error) ==
    [kind |-> kind, value |-> value, totalCount |-> totalCount, error |-> error]
\* how the awaited fetchTourAPI call settled: pending, a body, or an error
Settlement(kind, data, error) == [kind |-> kind, data |-> data, error |-> error]

Args(keyword, contentId, contentTypeId) ==
    [keyword |-> keyword, contentId |-> contentId, contentTypeId |-> contentTypeId]

\* lines 331-333, 374-376, 411-416, 447-449, 470-472: the error a gateway
\* function throws before any network call, NoError when its arguments pass
ValidationError(op, args) ==
    IF op = "searchKeyword"
    THEN IF Blank(args.keyword) \/ Trim(args.keyword.chars) = <<>>
         THEN Err("Error", <<"Keyword", "is", "required">>)
         ELSE NoError
    ELSE IF Blank(args.contentId)
         THEN Err("Error", <<"ContentId", "is", "required">>)
         ELSE IF op = "getDetailIntro" /\ Blank(args.contentTypeId)
              THEN Err("Error", <<"ContentTypeId", "is", "required">>)
              ELSE NoError

GatewayReturnUnchecked(op, data) ==
    LET items == ExtractItems(data) IN
    IF op \in {"searchKeyword", "getDetailImage"}
    THEN Outcome("ok", JsArray(items), -1, NoError)
    ELSE Outcome("ok", IF Len(items) = 0 THEN JsUndefined ELSE JsObject(items[1]), -1, NoError)
\* lines 349-363, 382-397, 422-430, 458, 477-483: what the gateway function
\* settles with once fetchTourAPI resolved with data
GatewayReturn(op, data) ==
    LET items == ExtractItems(data) IN
    IF op = "searchKeyword"
    THEN Outcome("ok", JsArray(items),
                 IF data.totalCount = -1 THEN 0 ELSE data.totalCount, NoError)
    ELSE IF op = "getDetailImage"
    THEN Outcome("ok", JsArray(items), -1, NoError)
    ELSE IF Len(items) # 0
    THEN Outcome("ok", JsObject(items[1]), -1, NoError)
    ELSE IF op = "getDetailCommon"
    THEN Outcome("error", JsUndefined, -1, Err("Error", <<"Tour", "detail", "not", "found">>))
    ELSE IF op = "getDetailIntro"
    THEN Outcome("error", JsUndefined, -1, Err("Error", <<"Tour", "intro", "not", "found">>))
    ELSE Outcome("ok", JsNull, -1, NoError)

\* what the gateway function settles with once fetchTourAPI rejected with
\* error: only getDetailPetTour awaits it inside a try block, and its catch
\* block (lines 484-493) returns null for any error
GatewayRejected(op, error) ==
    IF op = "getDetailPetTour"
    THEN Outcome("ok", JsNull, -1, NoError)
    ELSE Outcome("error", JsUndefined, -1, error)

GatewayInit ==
    /\ gPc = "idle"
    /\ gOp = "none"
    /\ gArgs = Args(NoString, NoString, NoString)
    /\ gNetCalls = 0
    /\ gSettled = Settlement("none", Envelope("missing", JsUndefined, -1), NoError)
    /\ gOut = Outcome("none", JsUndefined, -1, NoError)

\* lines 324-348, 371-380, 407-421, 442-457, 467-476: a gateway function is
\* called; it throws before any network call when its arguments do not pass,
\* else it calls fetchTourAPI and awaits it
GatewayCall(op, args) ==
    /\ gPc = "idle"
    /\ gOp' = op
    /\ gArgs' = args
    /\ IF ValidationError(op, args) # NoError
       THEN /\ gPc' = "done"
            /\ gOut' = Outcome("error", JsUndefined, -1, ValidationError(op, args))
            /\ gNetCalls' = gNetCalls
       ELSE /\ gPc' = "awaiting"
            /\ gOut' = gOut
            /\ gNetCalls' = gNetCalls + 1
    /\ gSettled' = gSettled
    /\ UNCHANGED <<fetchVars, statsVars, summaryVars, codecVars, coordVars, bookmarkVars, filterVars, metricsVars>>

\* the awaited fetchTourAPI call resolves with a parsed body and the gateway
\* function runs to its return or throw
FetchTourAPIResolved(data) ==
    /\ gPc = "awaiting"
    /\ gPc' = "done"
    /\ gSettled' = Settlement("ok", data, NoError)
    /\ gOut' = GatewayReturn(gOp, data)
    /\ UNCHANGED <<gOp, gArgs, gNetCalls>>
    /\ UNCHANGED <<fetchVars, statsVars, summaryVars, codecVars, coordVars, bookmarkVars, filterVars, metricsVars>>

\* the awaited fetchTourAPI call rejects and the gateway function runs to its
\* return or throw
FetchTourAPIRejected(error) ==
    /\ gPc = "awaiting"
    /\ gPc' = "done"
    /\ gSettled' = Settlement("error", Envelope("missing", JsUndefined, -1), error)
    /\ gOut' = GatewayRejected(gOp, error)
    /\ UNCHANGED <<gOp, gArgs, gNetCalls>>
    /\ UNCHANGED <<fetchVars, statsVars, summaryVars, codecVars, coordVars, bookmarkVars, filterVars, metricsVars>>

GatewayNext ==
    \/ \E keyword \in {NoString} \cup
                { Str(c) : c \in UNION { [1..n -> {"a"} \cup WhiteSpace] : n \in 0..MaxKeywordLen } } :
            GatewayCall("searchKeyword", Args(keyword, NoString, NoString))
    \/ \E op \in {"getDetailCommon", "getDetailIntro", "getDetailImage", "getDetailPetTour"} :
       \E contentId \in {NoString, Str(<<>>), Str(<<"1">>)} :
       \E contentTypeId \in IF op = "getDetailIntro"
                             THEN {NoString, Str(<<>>), Str(<<"1", "2">>)}
                             ELSE {NoString} :
            GatewayCall(op, Args(NoString, contentId, contentTypeId))
    \/ \E data \in Envelopes : FetchTourAPIResolved(data)
    \/ \E error \in FetchTourAPIErrors : FetchTourAPIRejected(error)

(***************************************************************************)
(* Filter codec (filter.ts: part_016 lines 232-318)                        *)
(***************************************************************************)
\* JavaScript numbers: a number, NaN, or undefined in place of a number
NoNumber == [kind |-> "undefined", n |-> 0]
NaN == [kind |-> "NaN", n |-> 0]
Num(n) == [kind |-> "number", n |-> n]

DigitChars == <<"0", "1", "2", "3", "4", "5", "6", "7", "8", "9">>

\* line 243: parseInt(pageParam, 10): leading white space, an optional sign,
\* then the longest run of decimal digits; NaN when there is no digit
ParseInt(chars) ==
    LET IsDigit(c) == \E i \in 1..Len(DigitChars) : DigitChars[i] = c
        DigitOf(c) == (CHOOSE i \in 1..Len(DigitChars) : DigitChars[i] = c) - 1
        RECURSIVE LeadingDigits(_)
        LeadingDigits(cs) ==
            IF cs # <<>> /\ IsDigit(Head(cs))
            THEN <<Head(cs)>> \o LeadingDigits(Tail(cs))
            ELSE <<>>
        RECURSIVE DigitsValue(_)
        DigitsValue(ds) ==
            IF ds = <<>> THEN 0
            ELSE 10 * DigitsValue(SubSeq(ds, 1, Len(ds) - 1)) + DigitOf(ds[Len(ds)])
        s == TrimStart(chars)
        signed == s # <<>> /\ Head(s) \in {"-", "+"}
        digits == LeadingDigits(IF signed THEN Tail(s) ELSE s)
    IN  IF digits = <<>> THEN NaN
        ELSE Num((IF signed /\ Head(s) = "-" THEN -1 ELSE 1) * DigitsValue(digits))

RECURSIVE StringOf(_)
\* line 299: String(params.page), for an integer
StringOf(n) ==
    IF n < 0 THEN <<"-">> \o StringOf(-n)
    ELSE IF n < 10 THEN <<DigitChars[n + 1]>>
    ELSE StringOf(n \div 10) \o <<DigitChars[(n % 10) + 1]>>

MathMaxIdentity(a, v) == v
\* line 243: Math.max(1, v)
MathMax(a, v) == IF v.kind = "NaN" THEN NaN ELSE Num(IF v.n > a THEN v.n ELSE a)

SplitNothing(chars, sep) == <<chars>>
\* line 252: contentTypeId.split(",")
Split(chars, sep) ==
    LET RECURSIVE SplitFrom(_, _)
        SplitFrom(cs, piece) ==
            IF cs = <<>> THEN <<piece>>
            ELSE IF Head(cs) = sep THEN <<piece>> \o SplitFrom(Tail(cs), <<>>)
            ELSE SplitFrom(Tail(cs), Append(piece, Head(cs)))
    IN  SplitFrom(chars, <<>>)

RECURSIVE Join(_, _)
\* line 284: ids.join(",")
Join(pieces, sep) ==
    IF pieces = <<>> THEN <<>>
    ELSE IF Len(pieces) = 1 THEN pieces[1]
    ELSE pieces[1] \o <<sep>> \o Join(Tail(pieces), sep)

\* the value of searchParams.contentTypeId / FilterParams.contentTypeId:
\* undefined, one string, or an array of strings
CtUndefined == [tag |-> "undefined", chars |-> <<>>, arr |-> <<>>]
CtString(chars) == [tag |-> "string", chars |-> chars, arr |-> <<>>]
CtArray(arr) == [tag |-> "array", chars |-> <<>>, arr |-> arr]

\* a FilterParams object, and a searchParams object restricted to the keys
\* parseFilterParams reads.  petFriendly is "undefined", "false" or "true" in
\* a FilterParams and a string in a searchParams; page is a number in a
\* FilterParams and a string in a searchParams.
FilterParams(keyword, areaCode, contentTypeId, petFriendly, petSize, sort, page) ==
    [keyword |-> keyword, areaCode |-> areaCode, contentTypeId |-> contentTypeId,
     petFriendly |-> petFriendly, petSize |-> petSize, sort |-> sort, page |-> page]

\* application/x-www-form-urlencoded, as URLSearchParams.toString() writes a
\* string (line 302) and as the URL parser reads it back
Encode(chars) ==
    LET EncodeChar(c) ==
            IF c = " " THEN "+"
            ELSE IF c = "&" THEN "%26"
            ELSE IF c = "=" THEN "%3D"
            ELSE IF c = "+" THEN "%2B"
            ELSE IF c = "," THEN "%2C"
            ELSE IF c = "%" THEN "%25"
            ELSE c
    IN  [i \in 1..Len(chars) |-> EncodeChar(chars[i])]
Decode(chars) ==
    LET DecodeChar(t) ==
            IF t = "+" THEN " "
            ELSE IF t = "%26" THEN "&"
            ELSE IF t = "%3D" THEN "="
            ELSE IF t = "%2B" THEN "+"
            ELSE IF t = "%2C" THEN ","
            ELSE IF t = "%25" THEN "%"
            ELSE t
    IN  [i \in 1..Len(chars) |-> DecodeChar(chars[i])]

RECURSIVE QueryToString(_)
\* line 302: queryParams.toString(), for the list of pairs queryParams holds
QueryToString(query) ==
    IF query = <<>> THEN <<>>
    ELSE <<Head(query).key, "=">> \o Encode(Head(query).value)
         \o (IF Len(query) = 1 THEN <<>> ELSE <<"&">> \o QueryToString(Tail(query)))

\* the pairs of a query string, as the URL parser reads them: each part is a
\* key, "=", and the encoded value
QueryPairs(str) ==
    LET PairOf(part) == [key |-> part[1], value |-> Decode(SubSeq(part, 3, Len(part)))]
        PairsOf(parts) == [i \in 1..Len(parts) |-> PairOf(parts[i])]
    IN  IF str = <<>> THEN <<>> ELSE PairsOf(Split(str, "&"))

\* the searchParams object the page receives for a query string without
\* repeated keys
SearchParamsOf(str) ==
    LET ParamOf(pairs, key) ==
            IF \E i \in 1..Len(pairs) : pairs[i].key = key
            THEN Str(pairs[CHOOSE i \in 1..Len(pairs) : pairs[i].key = key].value)
            ELSE NoString
        From(pairs) ==
            FilterParams(ParamOf(pairs, "keyword"), ParamOf(pairs, "areaCode"),
                         IF ParamOf(pairs, "contentTypeId").defined
                         THEN CtString(ParamOf(pairs, "contentTypeId").chars)
                         ELSE CtUndefined,
                         ParamOf(pairs, "petFriendly"), ParamOf(pairs, "petSize"),
                         ParamOf(pairs, "sort"), ParamOf(pairs, "page"))
    IN  From(QueryPairs(str))

\* lines 232-259
ParseFilterParams(searchParams) ==
    LET contentTypeId == searchParams.contentTypeId
        petFriendly == searchParams.petFriendly = Str(<<"true">>)
        sort == IF Blank(searchParams.sort) THEN Str(<<"latest">>) ELSE searchParams.sort
        pageParam == searchParams.page
        clamped == MathMax(1, ParseInt(pageParam.chars))
        page == IF ~Blank(pageParam)
                THEN IF clamped.kind = "NaN" \/ clamped.n = 0 THEN NoNumber ELSE clamped
                ELSE NoNumber
    IN  FilterParams(
            searchParams.keyword,
            searchParams.areaCode,
            IF contentTypeId.tag = "array" THEN contentTypeId
            ELSE IF contentTypeId.tag = "string" /\ contentTypeId.chars # <<>>
                 THEN CtArray(Split(contentTypeId.chars, ","))
                 ELSE CtUndefined,
            IF petFriendly THEN "true" ELSE "undefined",
            searchParams.petSize,
            sort,
            page)

\* lines 267-300: the URLSearchParams buildFilterQuery fills; set(key, value)
\* appends a pair, each key being set once
FilterQuery(params) ==
    LET Set(query, key, value) == Append(query, [key |-> key, value |-> value])
        q1 == IF ~Blank(params.keyword)
              THEN Set(<<>>, "keyword", params.keyword.chars) ELSE <<>>
        q2 == IF ~Blank(params.areaCode)
              THEN Set(q1, "areaCode", params.areaCode.chars) ELSE q1
        ct == params.contentTypeId
        q3 == IF ct.tag = "array" \/ (ct.tag = "string" /\ ct.chars # <<>>)
              THEN Set(q2, "contentTypeId",
                       Join(IF ct.tag = "array" THEN ct.arr ELSE <<ct.chars>>, ","))
              ELSE q2
        q4 == IF params.petFriendly = "true"
              THEN Set(q3, "petFriendly", <<"true">>) ELSE q3
        q5 == IF ~Blank(params.petSize)
              THEN Set(q4, "petSize", params.petSize.chars) ELSE q4
        q6 == IF ~Blank(params.sort) /\ params.sort # Str(<<"latest">>)
              THEN Set(q5, "sort", params.sort.chars) ELSE q5
    IN  IF params.page.kind = "number" /\ params.page.n # 0 /\ params.page.n > 1
        THEN Set(q6, "page", StringOf(params.page.n)) ELSE q6

BuildFilterQueryWithDefaults(params) ==
    QueryToString(
        IF Blank(params.sort) \/ params.sort = Str(<<"latest">>)
        THEN Append(FilterQuery(params), [key |-> "sort", value |-> <<"latest">>])
        ELSE FilterQuery(params))
\* lines 267-303
BuildFilterQuery(params) == QueryToString(FilterQuery(params))

\* the FilterParams values given to buildFilterQuery: a keyword of up to
\* MaxFilterKeywordLen characters, no selection or the selected content type
\* ids in the order they were selected, pages 1..MaxPage
FilterStates ==
    LET Keywords ==
            {NoString, Str(<<>>)}
            \cup { Str(c) : c \in UNION { [1..n -> {"a", " ", "&", "=", "+", ",", "%"}] :
                                            n \in 1..MaxFilterKeywordLen } }
        TypeIds == {<<"1", "2">>, <<"1", "4">>}
        Selections ==
            {CtUndefined}
            \cup { CtArray(a) :
                    a \in { b \in UNION { [1..n -> TypeIds] : n \in 1..Cardinality(TypeIds) } :
                              \A i, j \in 1..Len(b) : b[i] = b[j] => i = j } }
    IN  { FilterParams(k, a, c, pf, ps, s, p) :
            k \in Keywords, a \in {NoString, Str(<<"1">>)}, c \in Selections,
            pf \in {"undefined", "false", "true"}, ps \in {NoString, Str(<<"small">>)},
            s \in {NoString, Str(<<"latest">>), Str(<<"name">>)},
            p \in {NoNumber} \cup { Num(n) : n \in 1..MaxPage } }

\* the searchParams of a URL that was typed, not built: a page parameter of
\* up to MaxPageParamLen characters
TypedSearchParams ==
    LET PageParams ==
            {NoString}
            \cup { Str(c) : c \in UNION { [1..n -> {"-", "0", "1", "2", "x"}] :
                                            n \in 0..MaxPageParamLen } }
    IN  { FilterParams(NoString, NoString, c, pf, NoString, s, p) :
            c \in {CtUndefined, CtString(<<>>), CtArray(<<<<"1", "2">>, <<"1", "4">>>>)},
            pf \in {NoString, Str(<<"true">>), Str(<<"1">>)},
            s \in {NoString, Str(<<>>), Str(<<"name">>)},
            p \in PageParams }

CodecInit ==
    /\ cPc = "idle"
    /\ cFrom = "none"
    /\ cState = FilterParams(NoString, NoString, CtUndefined, "undefined", NoString, NoString, NoNumber)
    /\ cQuery = <<>>
    /\ cParams = FilterParams(NoString, NoString, CtUndefined, NoString, NoString, NoString, NoString)
    /\ cParsed = FilterParams(NoString, NoString, CtUndefined, "undefined", NoString, NoString, NoNumber)

\* tour-pagination.tsx line 114, bookmark-sort.tsx line 296: a component
\* serialises its filter state
Serialize(state) ==
    /\ cPc = "idle"
    /\ cPc' = "built"
    /\ cFrom' = "state"
    /\ cState' = state
    /\ cQuery' = BuildFilterQuery(state)
    /\ UNCHANGED <<cParams, cParsed>>
    /\ UNCHANGED <<fetchVars, statsVars, summaryVars, gatewayVars, coordVars, bookmarkVars, filterVars, metricsVars>>

\* tour-pagination.tsx lines 117-118: router.push of the built URL; the page
\* receives the searchParams of that URL
Navigate ==
    /\ cPc = "built"
    /\ cPc' = "url"
    /\ cParams' = SearchParamsOf(cQuery)
    /\ UNCHANGED <<cFrom, cState, cQuery, cParsed>>
    /\ UNCHANGED <<fetchVars, statsVars, summaryVars, gatewayVars, coordVars, bookmarkVars, filterVars, metricsVars>>

\* the page is opened with a URL that no component built
OpenUrl(searchParams) ==
    /\ cPc = "idle"
    /\ cPc' = "url"
    /\ cFrom' = "url"
    /\ cParams' = searchParams
    /\ UNCHANGED <<cState, cQuery, cParsed>>
    /\ UNCHANGED <<fetchVars, statsVars, summaryVars, gatewayVars, coordVars, bookmarkVars, filterVars, metricsVars>>

\* part_001 line 69: the page parses its searchParams
Parse ==
    /\ cPc = "url"
    /\ cPc' = "parsed"
    /\ cParsed' = ParseFilterParams(cParams)
    /\ UNCHANGED <<cFrom, cState, cQuery, cParams>>
    /\ UNCHANGED <<fetchVars, statsVars, summaryVars, gatewayVars, coordVars, bookmarkVars, filterVars, metricsVars>>

CodecNext ==
    \/ cPc = "idle" /\ \E state \in FilterStates : Serialize(state)
    \/ Navigate
    \/ cPc = "idle" /\ \E searchParams \in TypedSearchParams : OpenUrl(searchParams)
    \/ Parse

(***************************************************************************)
(* Coordinate conversion (tour.ts: part_019 lines 145-153;                 *)
(* naver-map-metrics.ts: part_017 lines 164-219)                           *)
(***************************************************************************)
\* parseFloat(s) for a string without fraction, exponent or "Infinity": leading
\* white space, an optional sign, the longest run of digits; NaN without a digit
ParseFloat(chars) == ParseInt(chars)

DegreesPerMillion(v) ==
    IF v.kind = "NaN" THEN [kind |-> "NaN", whole |-> 0, frac |-> 0]
    ELSE [kind |-> "number", whole |-> v.n \div 1000000, frac |-> 10 * (v.n % 1000000)]
\* v / 10000000, as the decimal number whole + frac / 10000000 with
\* 0 <= frac < 10000000; NaN / 10000000 is NaN
Degrees(v) ==
    IF v.kind = "NaN" THEN [kind |-> "NaN", whole |-> 0, frac |-> 0]
    ELSE [kind |-> "number", whole |-> v.n \div 10000000, frac |-> v.n % 10000000]

\* what the two functions return; isValid and errors are those of
\* validateCoordinateConversion.  An error message is named by a word.
Coordinates(lng, lat, isValid, errors) ==
    [lng |-> lng, lat |-> lat, isValid |-> isValid, errors |-> errors]

\* part_019 lines 145-153
ConvertKATECToWGS84(mapx, mapy) ==
    Coordinates(Degrees(ParseFloat(mapx.chars)), Degrees(ParseFloat(mapy.chars)), TRUE, <<>>)

\* part_017 lines 164-219
ValidateCoordinateConversion(mapx, mapy) ==
    LET Zero == [kind |-> "number", whole |-> 0, frac |-> 0]
        mapxNum == ParseFloat(mapx.chars)
        mapyNum == ParseFloat(mapy.chars)
        lng == Degrees(mapxNum)
        lat == Degrees(mapyNum)
        Below(d, k) == d.whole < k
        Above(d, k) == d.whole > k \/ (d.whole = k /\ d.frac > 0)
        e1 == IF mapxNum.n < 1240000000 \/ mapxNum.n > 1320000000
              THEN <<"RAW_LNG_RANGE">> ELSE <<>>
        e2 == IF mapyNum.n < 330000000 \/ mapyNum.n > 430000000
              THEN Append(e1, "RAW_LAT_RANGE") ELSE e1
        e3 == IF Below(lng, 124) \/ Above(lng, 132) THEN Append(e2, "LNG_RANGE") ELSE e2
        errors == IF Below(lat, 33) \/ Above(lat, 43) THEN Append(e3, "LAT_RANGE") ELSE e3
    IN  IF Blank(mapx) \/ Blank(mapy)
        THEN Coordinates(Zero, Zero, FALSE, <<"EMPTY">>)
        ELSE IF mapxNum.kind = "NaN" \/ mapyNum.kind = "NaN"
        THEN Coordinates(Zero, Zero, FALSE, <<"NOT_A_NUMBER">>)
        ELSE Coordinates(lng, lat, errors = <<>>, errors)

\* the mapx / mapy pairs passed: raw integers around the limits of the valid
\* raw range and inside it, written as strings, and strings that hold no number
CoordInputs ==
    LET Around(n) == { n - d : d \in 0..MaxOffset } \cup { n + d : d \in 0..MaxOffset }
        RawX == Around(1240000000) \cup Around(1320000000) \cup {-1, 0, 1281234567}
        RawY == Around(330000000) \cup Around(430000000) \cup {0, 375678901}
        NoNumbers == {NoString, Str(<<>>), Str(<<"x">>)}
        Xs == { [raw |-> Num(n), arg |-> Str(StringOf(n))] : n \in RawX }
                \cup { [raw |-> NoNumber, arg |-> s] : s \in NoNumbers }
        Ys == { [raw |-> Num(n), arg |-> Str(StringOf(n))] : n \in RawY }
                \cup { [raw |-> NoNumber, arg |-> s] : s \in NoNumbers }
    IN  { [raw |-> [x |-> x.raw, y |-> y.raw], args |-> [mapx |-> x.arg, mapy |-> y.arg]] :
            x \in Xs, y \in Ys }

CoordInit ==
    /\ kPc = "idle"
    /\ kOp = "none"
    /\ kRaw = [x |-> NoNumber, y |-> NoNumber]
    /\ kArgs = [mapx |-> NoString, mapy |-> NoString]
    /\ kOut = Coordinates(Degrees(NaN), Degrees(NaN), FALSE, <<>>)

\* part_019 lines 145-153: convertKATECToWGS84 is called
Convert(input) ==
    /\ kPc = "idle"
    /\ kPc' = "done"
    /\ kOp' = "convert"
    /\ kRaw' = input.raw
    /\ kArgs' = input.args
    /\ kOut' = ConvertKATECToWGS84(input.args.mapx, input.args.mapy)
    /\ UNCHANGED <<fetchVars, statsVars, summaryVars, gatewayVars, codecVars, bookmarkVars, filterVars, metricsVars>>

\* part_017 lines 164-219: validateCoordinateConversion is called
Validate(input) ==
    /\ kPc = "idle"
    /\ kPc' = "done"
    /\ kOp' = "validate"
    /\ kRaw' = input.raw
    /\ kArgs' = input.args
    /\ kOut' = ValidateCoordinateConversion(input.args.mapx, input.args.mapy)
    /\ UNCHANGED <<fetchVars, statsVars, summaryVars, gatewayVars, codecVars, bookmarkVars, filterVars, metricsVars>>

CoordNext ==
    \/ \E input \in CoordInputs : Convert(input)
    \/ \E input \in CoordInputs : Validate(input)

(***************************************************************************)
(* Bookmark data access (lib/api/supabase-api.ts), the bookmark server     *)
(* actions (actions/bookmark.ts) and BookmarkButton                        *)
(*                                                                         *)
(* The bookmarks table is the sequence of its rows in insertion order, so  *)
(* a later row has the later created_at.  The session of a request is the  *)
(* userId that auth() returns for it; NoUser is the null of a request      *)
(* without a session.  A store fault names the table whose next query      *)
(* answers with an error.                                                  *)
(***************************************************************************)
NoUser == "null"

\* Rows of the users table: clerk_id -> id.  "clerk_c" was never synced.
Users == [clerk_a |-> "user_a", clerk_b |-> "user_b"]

\* supabase.from("users").select("id").eq("clerk_id", userId).single()
FindUser(userId, fault) ==
    IF fault = "users" \/ userId \notin DOMAIN Users
    THEN [data |-> "null", error |-> TRUE]
    ELSE [data |-> Users[userId], error |-> FALSE]

\* .eq("user_id", id).order("created_at", { ascending: false })
UserBookmarkRows(id, rows) ==
    LET mine == SelectSeq(rows, LAMBDA r : r.user_id = id)
    IN  [i \in 1..Len(mine) |-> mine[Len(mine) + 1 - i]]

\* What a data-access function hands back: the returned boolean or list,
\* the thrown error, the table afterwards and the store queries it issued.
Reply(value, list, error, rows, calls) ==
    [value |-> value, list |-> list, error |-> error, rows |-> rows,
     calls |-> calls]

GetBookmark(userId, contentId, fault, rows) ==
    IF userId = NoUser
    THEN Reply("false", <<>>, "none", rows, <<>>)
    ELSE LET user == FindUser(userId, fault)
             hits == {i \in 1..Len(rows) :
                         rows[i] = [user_id |-> user.data,
                                    content_id |-> contentId]}
         IN  IF user.error
             THEN Reply("false", <<>>, "none", rows, <<"users.select">>)
             ELSE Reply(IF fault = "bookmarks" \/ Cardinality(hits) # 1
                        THEN "false" ELSE "true",
                        <<>>, "none", rows,
                        <<"users.select", "bookmarks.select">>)

AddBookmarkThrowDuplicate(userId, contentId, fault, rows) ==
    IF userId = NoUser
    THEN Reply("none", <<>>, "LOGIN_REQUIRED", rows, <<>>)
    ELSE LET user == FindUser(userId, fault)
             row == [user_id |-> user.data, content_id |-> contentId]
         IN  IF user.error
             THEN Reply("none", <<>>, "USER_NOT_FOUND", rows,
                        <<"users.select">>)
             ELSE IF fault = "bookmarks"
             THEN Reply("none", <<>>, "STORE_ERROR", rows,
                        <<"users.select", "bookmarks.insert">>)
             ELSE IF \E i \in 1..Len(rows) : rows[i] = row
             THEN Reply("none", <<>>, "23505", rows,
                        <<"users.select", "bookmarks.insert">>)
             ELSE Reply("true", <<>>, "none", Append(rows, row),
                        <<"users.select", "bookmarks.insert">>)

\* The insert answers with code 23505 when the row's (user_id, content_id)
\* is already in the table (UNIQUE constraint) and leaves the table alone.
AddBookmark(userId, contentId, fault, rows) ==
    IF userId = NoUser
    THEN Reply("none", <<>>, "LOGIN_REQUIRED", rows, <<>>)
    ELSE LET user == FindUser(userId, fault)
             row == [user_id |-> user.data, content_id |-> contentId]
             insertError ==
                 IF fault = "bookmarks" THEN "STORE_ERROR"
                 ELSE IF \E i \in 1..Len(rows) : rows[i] = row THEN "23505"
                 ELSE "none"
             inserted == IF insertError = "none" THEN Append(rows, row)
                         ELSE rows
             calls == <<"users.select", "bookmarks.insert">>
         IN  IF user.error
             THEN Reply("none", <<>>, "USER_NOT_FOUND", rows,
                        <<"users.select">>)
             ELSE IF insertError # "none"
             THEN IF insertError = "23505"
                  THEN Reply("true", <<>>, "none", inserted, calls)
                  ELSE Reply("none", <<>>, insertError, inserted, calls)
             ELSE Reply("true", <<>>, "none", inserted, calls)

RemoveBookmarkUnguarded(userId, contentId, fault, rows) ==
    LET user == FindUser(userId, fault)
        row == [user_id |-> user.data, content_id |-> contentId]
        calls == <<"users.select", "bookmarks.delete">>
    IN  IF user.error
        THEN Reply("none", <<>>, "USER_NOT_FOUND", rows, <<"users.select">>)
        ELSE IF fault = "bookmarks"
        THEN Reply("none", <<>>, "STORE_ERROR", rows, calls)
        ELSE Reply("true", <<>>, "none",
                   SelectSeq(rows, LAMBDA r : r # row), calls)

RemoveBookmark(userId, contentId, fault, rows) ==
    IF userId = NoUser
    THEN Reply("none", <<>>, "LOGIN_REQUIRED", rows, <<>>)
    ELSE LET user == FindUser(userId, fault)
             row == [user_id |-> user.data, content_id |-> contentId]
             calls == <<"users.select", "bookmarks.delete">>
         IN  IF user.error
             THEN Reply("none", <<>>, "USER_NOT_FOUND", rows,
                        <<"users.select">>)
             ELSE IF fault = "bookmarks"
             THEN Reply("none", <<>>, "STORE_ERROR", rows, calls)
             ELSE Reply("true", <<>>, "none",
                        SelectSeq(rows, LAMBDA r : r # row), calls)

GetUserBookmarks(userId, fault, rows) ==
    IF userId = NoUser
    THEN Reply("none", <<>>, "none", rows, <<>>)
    ELSE LET user == FindUser(userId, fault)
             data == UserBookmarkRows(user.data, rows)
         IN  IF user.error
             THEN Reply("none", <<>>, "none", rows, <<"users.select">>)
             ELSE Reply("none",
                        IF fault = "bookmarks" THEN <<>>
                        ELSE [i \in 1..Len(data) |-> data[i].content_id],
                        "none", rows,
                        <<"users.select", "bookmarks.select">>)

GetUserBookmarksWithDetailsFailFast(userId, fault, failed, rows) ==
    LET user == FindUser(userId, fault)
        bookmarks_ == UserBookmarkRows(user.data, rows)
        contentIds == [i \in 1..Len(bookmarks_) |-> bookmarks_[i].content_id]
    IN  IF userId = NoUser \/ user.error \/ fault = "bookmarks"
        THEN Reply("none", <<>>, "none", rows, <<>>)
        ELSE IF \E i \in 1..Len(contentIds) : contentIds[i] \in failed
        THEN Reply("none", <<>>, "DETAIL_FAILED", rows, <<>>)
        ELSE Reply("none", [i \in 1..Len(contentIds) |->
                               [contentid |-> contentIds[i]]],
                   "none", rows, <<>>)

\* failed: the content ids whose getDetailCommon lookup rejects.  An item
\* of the returned list is the TourItem built from the detail of one id.
GetUserBookmarksWithDetails(userId, fault, failed, rows) ==
    IF userId = NoUser
    THEN Reply("none", <<>>, "none", rows, <<>>)
    ELSE LET user == FindUser(userId, fault)
             bookmarks_ == UserBookmarkRows(user.data, rows)
             contentIds ==
                 [i \in 1..Len(bookmarks_) |-> bookmarks_[i].content_id]
             tourDetails ==
                 [i \in 1..Len(contentIds) |->
                     IF contentIds[i] \in failed
                     THEN [status |-> "rejected", value |-> "none"]
                     ELSE [status |-> "fulfilled",
                           value |-> [contentid |-> contentIds[i]]]]
             RECURSIVE tourItems(_)
             tourItems(i) ==
                 IF i = 0 THEN <<>>
                 ELSE IF tourDetails[i].status = "fulfilled"
                 THEN Append(tourItems(i - 1), tourDetails[i].value)
                 ELSE tourItems(i - 1)
         IN  IF user.error
             THEN Reply("none", <<>>, "none", rows, <<"users.select">>)
             ELSE IF fault = "bookmarks" \/ Len(bookmarks_) = 0
             THEN Reply("none", <<>>, "none", rows,
                        <<"users.select", "bookmarks.select">>)
             ELSE Reply("none", tourItems(Len(tourDetails)), "none", rows,
                        <<"users.select", "bookmarks.select">>)

ToggleBookmarkEcho(userId, contentId, isBookmarked, fault, rows) ==
    LET done == IF isBookmarked
                THEN RemoveBookmark(userId, contentId, fault, rows)
                ELSE AddBookmark(userId, contentId, fault, rows)
    IN  [success |-> done.error = "none", isBookmarked |-> isBookmarked,
         error |-> done.error, rows |-> done.rows]

ToggleBookmark(userId, contentId, isBookmarked, fault, rows) ==
    LET done == IF isBookmarked
                THEN RemoveBookmark(userId, contentId, fault, rows)
                ELSE AddBookmark(userId, contentId, fault, rows)
    IN  IF done.error = "none"
        THEN [success |-> TRUE, isBookmarked |-> ~isBookmarked,
              error |-> "none", rows |-> done.rows]
        ELSE [success |-> FALSE, isBookmarked |-> isBookmarked,
              error |-> done.error, rows |-> done.rows]

RemoveBookmarksBatchAllOrNothing(userId, contentIds, faults, rows) ==
    LET RECURSIVE settle(_)
        settle(i) ==
            IF i = 0 THEN [results |-> <<>>, rows |-> rows]
            ELSE LET sofar == settle(i - 1)
                     done == RemoveBookmark(userId, contentIds[i],
                                            faults[i], sofar.rows)
                 IN  [results |-> Append(sofar.results, done),
                      rows |-> done.rows]
        all == settle(Len(contentIds))
        deletedCount ==
            Cardinality({i \in 1..Len(all.results) :
                            all.results[i].value = "true"})
    IN  [success |-> Len(contentIds) > 0 /\ deletedCount = Len(contentIds),
         deletedCount |-> deletedCount,
         error |-> IF deletedCount = Len(contentIds) /\ Len(contentIds) > 0
                   THEN "none" ELSE "FAILED",
         rows |-> all.rows, attempted |-> Len(all.results)]

\* faults[i] is the store fault met by the removal of contentIds[i].  The
\* removals touch different rows or the same row with the same effect, so
\* settling them one after the other gives the table of any interleaving.
RemoveBookmarksBatch(userId, contentIds, faults, rows) ==
    LET RECURSIVE settle(_)
        settle(i) ==
            IF i = 0 THEN [results |-> <<>>, rows |-> rows]
            ELSE LET sofar == settle(i - 1)
                     done == RemoveBookmark(userId, contentIds[i],
                                            faults[i], sofar.rows)
                 IN  [results |-> Append(sofar.results, done),
                      rows |-> done.rows]
        all == settle(Len(contentIds))
        deletedCount ==
            Cardinality({i \in 1..Len(all.results) :
                            all.results[i].error = "none"
                            /\ all.results[i].value = "true"})
        failedCount == Len(contentIds) - deletedCount
    IN  IF Len(contentIds) = 0
        THEN [success |-> FALSE, deletedCount |-> 0,
              error |-> "NOTHING_TO_DELETE", rows |-> rows, attempted |-> 0]
        ELSE IF deletedCount = 0
        THEN [success |-> FALSE, deletedCount |-> 0, error |-> "ALL_FAILED",
              rows |-> all.rows, attempted |-> Len(all.results)]
        ELSE IF failedCount > 0
        THEN [success |-> TRUE, deletedCount |-> deletedCount,
              error |-> "PARTLY_FAILED", rows |-> all.rows,
              attempted |-> Len(all.results)]
        ELSE [success |-> TRUE, deletedCount |-> deletedCount,
              error |-> "none", rows |-> all.rows,
              attempted |-> Len(all.results)]

\* The content shown by the BookmarkButton of the model.
ButtonContentId == "c1"

\* The last call: its session and inputs, the table and the displayed
\* isBookmarked before it, and its answer.
Called(op, userId, given, before, shown, reply) ==
    [op |-> op, userId |-> userId, given |-> given, before |-> before,
     shown |-> shown, reply |-> reply]

\* useState(false), useState(true), and the effect of the first render has
\* called checkBookmark.
BookmarkInit ==
    /\ bookmarks = <<>>
    /\ bLast = Called("none", NoUser, <<>>, <<>>, FALSE, <<>>)
    /\ button = [isBookmarked |-> FALSE, isLoading |-> TRUE]
    /\ awaited = <<[action |-> "checkBookmark", isBookmarked |-> FALSE]>>

\* A request of some page or tab reaches one of the data-access functions.
FacadeCall(op, userId, contentId, fault) ==
    LET reply ==
            CASE op = "getBookmark" ->
                     GetBookmark(userId, contentId, fault, bookmarks)
              [] op = "addBookmark" ->
                     AddBookmark(userId, contentId, fault, bookmarks)
              [] op = "removeBookmark" ->
                     RemoveBookmark(userId, contentId, fault, bookmarks)
              [] op = "getUserBookmarks" ->
                     GetUserBookmarks(userId, fault, bookmarks)
    IN  /\ bookmarks' = reply.rows
        /\ bLast' = Called(op, userId,
                           [contentId |-> contentId, fault |-> fault],
                           bookmarks, button.isBookmarked, reply)
        /\ UNCHANGED <<button, awaited>>
        /\ UNCHANGED <<fetchVars, statsVars, summaryVars, gatewayVars, codecVars, coordVars, filterVars, metricsVars>>

WithDetailsCall(userId, fault, failed) ==
    /\ bLast' = Called("getUserBookmarksWithDetails", userId,
                       [fault |-> fault, failed |-> failed],
                       bookmarks, button.isBookmarked,
                       GetUserBookmarksWithDetails(userId, fault, failed,
                                                   bookmarks))
    /\ UNCHANGED <<bookmarks, button, awaited>>
    /\ UNCHANGED <<fetchVars, statsVars, summaryVars, gatewayVars, codecVars, coordVars, filterVars, metricsVars>>

BatchCall(userId, contentIds, faults) ==
    LET reply == RemoveBookmarksBatch(userId, contentIds, faults, bookmarks)
    IN  /\ bookmarks' = reply.rows
        /\ bLast' = Called("removeBookmarksBatch", userId,
                           [contentIds |-> contentIds, faults |-> faults],
                           bookmarks, button.isBookmarked, reply)
        /\ UNCHANGED <<button, awaited>>
        /\ UNCHANGED <<fetchVars, statsVars, summaryVars, gatewayVars, codecVars, coordVars, filterVars, metricsVars>>

\* A click on the button.
HandleToggleBookmark ==
    /\ IF button.isLoading
       THEN UNCHANGED <<button, awaited>>
       ELSE /\ button' = [button EXCEPT !.isLoading = TRUE]
            /\ awaited' = Append(awaited,
                                 [action |-> "toggleBookmark",
                                  isBookmarked |-> button.isBookmarked])
    /\ bLast' = Called("click", NoUser, <<>>, bookmarks,
                       button.isBookmarked, [issued |-> ~button.isLoading])
    /\ UNCHANGED bookmarks
    /\ UNCHANGED <<fetchVars, statsVars, summaryVars, gatewayVars, codecVars, coordVars, filterVars, metricsVars>>

\* The answer of an awaited server action arrives.  The call of a server
\* action is itself a request that can be rejected: fault "action" is the
\* request lost before the action ran, fault "response" the answer lost
\* after it ran.
CheckBookmarkResolved(userId, fault) ==
    \E n \in 1..Len(awaited) :
    LET bookmarked == GetBookmark(userId, ButtonContentId, fault, bookmarks)
    IN  /\ awaited[n].action = "checkBookmark"
        /\ awaited' = [i \in 1..Len(awaited) - 1 |->
                          IF i < n THEN awaited[i] ELSE awaited[i + 1]]
        /\ button' = [isBookmarked |->
                          IF fault = "action" THEN button.isBookmarked
                          ELSE bookmarked.value = "true",
                      isLoading |-> FALSE]
        /\ bLast' = Called("checkBookmark", userId, [fault |-> fault],
                           bookmarks, button.isBookmarked, bookmarked)
        /\ UNCHANGED bookmarks
        /\ UNCHANGED <<fetchVars, statsVars, summaryVars, gatewayVars, codecVars, coordVars, filterVars, metricsVars>>

ToggleBookmarkResolved(userId, fault) ==
    \E n \in 1..Len(awaited) :
    LET result == ToggleBookmark(userId, ButtonContentId,
                                 awaited[n].isBookmarked, fault, bookmarks)
    IN  /\ awaited[n].action = "toggleBookmark"
        /\ awaited' = [i \in 1..Len(awaited) - 1 |->
                          IF i < n THEN awaited[i] ELSE awaited[i + 1]]
        /\ button' = [isBookmarked |->
                          IF fault \notin {"action", "response"}
                             /\ result.success
                          THEN result.isBookmarked
                          ELSE button.isBookmarked,
                      isLoading |-> FALSE]
        /\ bookmarks' = IF fault = "action" THEN bookmarks ELSE result.rows
        /\ bLast' = Called("toggleBookmark", userId,
                           [fault |-> fault,
                            isBookmarked |-> awaited[n].isBookmarked],
                           bookmarks, button.isBookmarked, result)
        /\ UNCHANGED <<fetchVars, statsVars, summaryVars, gatewayVars, codecVars, coordVars, filterVars, metricsVars>>

BookmarkNext ==
    \/ \E op \in {"getBookmark", "addBookmark", "removeBookmark",
                  "getUserBookmarks"},
          userId \in {NoUser, "clerk_a", "clerk_b", "clerk_c"},
          fault \in {"none", "users", "bookmarks"} :
          \E contentId \in IF userId = "clerk_a" THEN {"c1", "c2"}
                           ELSE {"c1"} :
             FacadeCall(op, userId, contentId, fault)
    \/ \E userId \in {NoUser, "clerk_a", "clerk_b"},
          fault \in {"none", "users", "bookmarks"},
          failed \in SUBSET {"c1", "c2"} :
          WithDetailsCall(userId, fault, failed)
    \/ \E userId \in {NoUser, "clerk_a"}, len \in 0..MaxBatch :
          \E contentIds \in [1..len -> {"c1", "c2"}],
             faults \in [1..len -> {"none", "bookmarks"}] :
             BatchCall(userId, contentIds, faults)

\* One BookmarkButton of a signed-in or signed-out visitor, while other
\* tabs of the same user add and remove the bookmark it shows.
ButtonNext ==
    \/ HandleToggleBookmark
    \/ \E userId \in {NoUser, "clerk_a", "clerk_c"},
          fault \in {"none", "users", "bookmarks", "action"} :
          CheckBookmarkResolved(userId, fault)
    \/ \E userId \in {NoUser, "clerk_a", "clerk_c"},
          fault \in {"none", "users", "bookmarks", "action", "response"} :
          ToggleBookmarkResolved(userId, fault)
    \/ \E op \in {"addBookmark", "removeBookmark"},
          userId \in {"clerk_a", "clerk_b"} :
          FacadeCall(op, userId, ButtonContentId, "none")

(***************************************************************************)
(* TourFilters (components/tour-filters.tsx), with the Navbar search and   *)
(* TourPagination that write the same URL                                  *)
(*                                                                         *)
(* The filter state is the query string of the current URL; a handler      *)
(* reads it through parseFilterParams (currentParams, the value of the     *)
(* render it belongs to) and pushes the URL it built.                      *)
(***************************************************************************)
\* lines 247-250: parseFilterParams(Object.fromEntries(searchParams.entries()))
CurrentParams == ParseFilterParams(SearchParamsOf(fQuery))

UpdateFilterKeepPage(currentParams, updates) ==
    BuildFilterQuery([f \in DOMAIN currentParams |->
                         IF f \in DOMAIN updates THEN updates[f]
                         ELSE currentParams[f]])

\* lines 291-296: the query string updateFilter pushes.  updates is the
\* object literal of the handler: the keys it names override, also when
\* their value is undefined.
UpdateFilter(currentParams, updates) ==
    LET spread == [f \in DOMAIN currentParams |->
                      IF f \in DOMAIN updates THEN updates[f]
                      ELSE currentParams[f]]
        paged == [spread EXCEPT !.page = Num(1)]
        newParams == IF ~Blank(currentParams.keyword)
                     THEN [paged EXCEPT !.keyword = currentParams.keyword]
                     ELSE paged
        \* updateFilterQuery (filter.ts 312-318): { ...currentParams, ...newParams }
        merged == [f \in DOMAIN currentParams \cup DOMAIN newParams |->
                      IF f \in DOMAIN newParams THEN newParams[f]
                      ELSE currentParams[f]]
    IN  BuildFilterQuery(merged)

FilterInit ==
    /\ fQuery = <<>>
    /\ fLast = [op |-> "none", keyword |-> NoString, page |-> NoNumber]

HandleAreaChange(currentParams, areaCode) ==
    /\ fQuery' = UpdateFilter(currentParams,
                              [areaCode |-> IF Blank(areaCode) THEN NoString
                                            ELSE areaCode])
    /\ fLast' = [op |-> "area", keyword |-> currentParams.keyword,
                 page |-> currentParams.page]
    /\ UNCHANGED <<fetchVars, statsVars, summaryVars, gatewayVars, codecVars, coordVars, bookmarkVars, metricsVars>>

HandleContentTypeToggle(currentParams, contentTypeId) ==
    LET currentIds == IF currentParams.contentTypeId.tag = "array"
                      THEN currentParams.contentTypeId.arr ELSE <<>>
        isSelected == \E i \in 1..Len(currentIds) : currentIds[i] = contentTypeId
        newIds == IF isSelected
                  THEN SelectSeq(currentIds, LAMBDA id : id # contentTypeId)
                  ELSE Append(currentIds, contentTypeId)
    IN  /\ fQuery' = UpdateFilter(currentParams,
                                  [contentTypeId |->
                                      IF Len(newIds) > 0 THEN CtArray(newIds)
                                      ELSE CtUndefined])
        /\ fLast' = [op |-> "type", keyword |-> currentParams.keyword,
                 page |-> currentParams.page]
        /\ UNCHANGED <<fetchVars, statsVars, summaryVars, gatewayVars, codecVars, coordVars, bookmarkVars, metricsVars>>

HandlePetFriendlyToggle(currentParams) ==
    LET on == currentParams.petFriendly = "true"
    IN  /\ fQuery' = UpdateFilter(currentParams,
                                  [petFriendly |-> IF on THEN "false" ELSE "true",
                                   petSize |-> IF ~on THEN NoString
                                               ELSE currentParams.petSize])
        /\ fLast' = [op |-> "pet", keyword |-> currentParams.keyword,
                 page |-> currentParams.page]
        /\ UNCHANGED <<fetchVars, statsVars, summaryVars, gatewayVars, codecVars, coordVars, bookmarkVars, metricsVars>>

\* The size buttons are rendered only while petFriendly is on (line 533).
HandlePetSizeChange(currentParams, petSize) ==
    /\ currentParams.petFriendly = "true"
    /\ fQuery' = UpdateFilter(currentParams,
                              [petSize |-> IF currentParams.petSize = petSize
                                           THEN NoString ELSE petSize])
    /\ fLast' = [op |-> "petSize", keyword |-> currentParams.keyword,
                 page |-> currentParams.page]
    /\ UNCHANGED <<fetchVars, statsVars, summaryVars, gatewayVars, codecVars, coordVars, bookmarkVars, metricsVars>>

HandleSortChange(currentParams, sort) ==
    /\ fQuery' = UpdateFilter(currentParams, [sort |-> sort])
    /\ fLast' = [op |-> "sort", keyword |-> currentParams.keyword,
                 page |-> currentParams.page]
    /\ UNCHANGED <<fetchVars, statsVars, summaryVars, gatewayVars, codecVars, coordVars, bookmarkVars, metricsVars>>

\* The reset button is shown while some filter is active (lines 359-379).
HandleReset(currentParams) ==
    /\ \/ ~Blank(currentParams.areaCode)
       \/ currentParams.contentTypeId.tag = "array"
       \/ currentParams.petFriendly = "true"
       \/ ~Blank(currentParams.petSize)
       \/ currentParams.sort # Str(<<"latest">>)
    /\ fQuery' = IF ~Blank(currentParams.keyword)
                 THEN <<"keyword", "=">> \o Encode(currentParams.keyword.chars)
                 ELSE <<>>
    /\ fLast' = [op |-> "reset", keyword |-> currentParams.keyword,
                 page |-> currentParams.page]
    /\ UNCHANGED <<fetchVars, statsVars, summaryVars, gatewayVars, codecVars, coordVars, bookmarkVars, metricsVars>>

\* Navbar.tsx lines 22-27, for a trimmed keyword of letters and "&", which
\* encodeURIComponent writes as the form encoding does.
HandleSearch(currentParams, searchQuery) ==
    /\ Trim(searchQuery) # <<>>
    /\ fQuery' = <<"keyword", "=">> \o Encode(Trim(searchQuery))
    /\ fLast' = [op |-> "search", keyword |-> currentParams.keyword,
                 page |-> currentParams.page]
    /\ UNCHANGED <<fetchVars, statsVars, summaryVars, gatewayVars, codecVars, coordVars, bookmarkVars, metricsVars>>

\* tour-pagination.tsx lines 104-118; currentPage is filters.page || 1
HandlePageChange(currentParams, page, totalPages) ==
    LET currentPage == IF currentParams.page.kind = "number"
                       THEN currentParams.page.n ELSE 1
    IN  /\ ~(page < 1 \/ page > totalPages \/ page = currentPage)
        /\ fQuery' = BuildFilterQuery([currentParams EXCEPT !.page = Num(page)])
        /\ fLast' = [op |-> "page", keyword |-> currentParams.keyword,
                 page |-> currentParams.page]
        /\ UNCHANGED <<fetchVars, statsVars, summaryVars, gatewayVars, codecVars, coordVars, bookmarkVars, metricsVars>>

FilterNext ==
    \/ \E areaCode \in {NoString, Str(<<"1">>)} :
          HandleAreaChange(CurrentParams, areaCode)
    \/ \E contentTypeId \in {<<"1", "2">>, <<"1", "4">>} :
          HandleContentTypeToggle(CurrentParams, contentTypeId)
    \/ HandlePetFriendlyToggle(CurrentParams)
    \/ \E petSize \in {Str(<<"small">>), Str(<<"medium">>)} :
          HandlePetSizeChange(CurrentParams, petSize)
    \/ \E sort \in {Str(<<"latest">>), Str(<<"name">>)} :
          HandleSortChange(CurrentParams, sort)
    \/ HandleReset(CurrentParams)
    \/ \E searchQuery \in {<<"a">>, <<" ", "a", "&">>} :
          HandleSearch(CurrentParams, searchQuery)
    \/ \E page \in 1..MaxTotalPages :
          HandlePageChange(CurrentParams, page, MaxTotalPages)

(***************************************************************************)
(* Metrics stores: APIMetricsStore (lib/utils/api-metrics.ts),             *)
(* NaverMapMetricsStore (lib/utils/naver-map-metrics.ts) and               *)
(* PerformanceMetricsStore (lib/utils/performance-metrics.ts)              *)
(*                                                                         *)
(* The three classes keep their metrics the same way.  A metric is         *)
(* modelled by its ordinal: the n-th metric handed to add since the store  *)
(* was last cleared is n.                                                  *)
(***************************************************************************)
MetricsInit ==
    /\ nodeEnv = "unset"
    /\ metrics = [store \in {"api", "map", "performance"} |-> <<>>]
    /\ added = [store \in {"api", "map", "performance"} |-> 0]

\* The process starts with its NODE_ENV.
Boot(env) ==
    /\ nodeEnv = "unset"
    /\ nodeEnv' = env
    /\ UNCHANGED <<metrics, added>>
    /\ UNCHANGED <<fetchVars, statsVars, summaryVars, gatewayVars, codecVars, coordVars, bookmarkVars, filterVars>>

AddNoShift(store) ==
    /\ nodeEnv # "unset"
    /\ added[store] < MaxOverflow
          + (CASE store = "api" -> API_MAX_METRICS
               [] store = "map" -> MAP_MAX_METRICS
               [] store = "performance" -> PERFORMANCE_MAX_METRICS)
    /\ Cardinality({s \in DOMAIN added : s # store /\ added[s] > 0})
          < MaxBusyStores
    /\ added' = [added EXCEPT ![store] = @ + 1]
    /\ metrics' = [metrics EXCEPT ![store] = Append(@, added[store] + 1)]
    /\ UNCHANGED nodeEnv
    /\ UNCHANGED <<fetchVars, statsVars, summaryVars, gatewayVars, codecVars, coordVars, bookmarkVars, filterVars>>

\* add(metric).  The call is explored up to MaxOverflow metrics beyond the
\* capacity, with at most MaxBusyStores stores in use at a time.
Add(store) ==
    LET maxMetrics == CASE store = "api" -> API_MAX_METRICS
                        [] store = "map" -> MAP_MAX_METRICS
                        [] store = "performance" -> PERFORMANCE_MAX_METRICS
        pushed == Append(metrics[store], added[store] + 1)
    IN  /\ nodeEnv # "unset"
        /\ added[store] < maxMetrics + MaxOverflow
        /\ Cardinality({s \in DOMAIN added : s # store /\ added[s] > 0})
              < MaxBusyStores
        /\ added' = [added EXCEPT ![store] = @ + 1]
        /\ metrics' = IF nodeEnv # "development" THEN metrics
                      ELSE [metrics EXCEPT ![store] =
                               IF Len(pushed) > maxMetrics THEN Tail(pushed)
                               ELSE pushed]
        /\ UNCHANGED nodeEnv
        /\ UNCHANGED <<fetchVars, statsVars, summaryVars, gatewayVars, codecVars, coordVars, bookmarkVars, filterVars>>

\* clear()
Clear(store) ==
    /\ nodeEnv # "unset"
    /\ metrics' = [metrics EXCEPT ![store] = <<>>]
    /\ added' = [added EXCEPT ![store] = 0]
    /\ UNCHANGED nodeEnv
    /\ UNCHANGED <<fetchVars, statsVars, summaryVars, gatewayVars, codecVars, coordVars, bookmarkVars, filterVars>>

MetricsNext ==
    \/ \E env \in {"development", "production"} : Boot(env)
    \/ \E store \in {"api", "map", "performance"} : Add(store)
    \/ \E store \in {"api", "map", "performance"} : Clear(store)

(***************************************************************************)
(* Properties of fetchTourAPI                                              *)
(***************************************************************************)
Last(seq) == seq[Len(seq)]
AllTimedOut == history # <<>> /\ \A k \in 1..Len(history) : history[k].kind = "abort"
AllRejected == history # <<>> /\ \A k \in 1..Len(history) : history[k].kind = "reject"
IsQuotaBody(ev) == ev.kind = "body" /\ ev.code = "04"
IsErrorBody(ev) == ev.kind = "body" /\ ev.code # "0000"

\* C1: retry ceiling.  When every attempt of a finished call timed out, exactly
\* retries + 1 requests were sent (4 with the default of 3 retries), the waits
\* between them were 1000, 2000, 4000, ... ms in that order, and the call
\* failed with the error named TimeoutError, whose message is not the
\* network-failure message.
RetryCeiling ==
    (fpc = "done" /\ AllTimedOut) =>
        /\ fetchCalls = retries + 1
        /\ Len(delays) = retries
        /\ \A k \in 1..Len(delays) : delays[k] = 1000 * Pow2(k - 1)
        /\ (retries = 3 => fetchCalls = 4 /\ delays = <<1000, 2000, 4000>>)
        /\ fResult.kind = "error"
        /\ fResult.error.name = "TimeoutError"
        /\ ~Includes(fResult.error.message, "NETWORK")

RetryCeilingWitness ==
    /\ fpc = "done"
    /\ retries = MAX_RETRIES
    /\ AllTimedOut
    /\ Len(history) = 4
    /\ fResult.error.name = "TimeoutError"

\* C2: no retry on quota.  A 2xx body with result code "04" ends the call on
\* that attempt with the quota-exceeded error; when it is the answer to the
\* first request, exactly one request was sent and no backoff wait was made.
NoRetryOnQuota ==
    \A k \in 1..Len(history) :
        IsQuotaBody(history[k]) =>
            /\ fpc = "done"
            /\ k = Len(history)
            /\ fetchCalls = k
            /\ Len(delays) = k - 1
            /\ fResult = [kind |-> "error", error |-> Err("Error", MsgQuota)]
            /\ (k = 1 => fetchCalls = 1 /\ delays = <<>>)

NoRetryOnQuotaWitness ==
    /\ fpc = "done"
    /\ retries = MAX_RETRIES
    /\ Len(history) = 1
    /\ IsQuotaBody(history[1])
    /\ fetchCalls = 1
    /\ fResult.error.message = MsgQuota

\* C3: every 2xx body with a result code other than "0000", whatever its
\* resultMsg, ends the call on that attempt: no later attempt, no wait.
NoRetryOnResultCode ==
    \A k \in 1..Len(history) :
        IsErrorBody(history[k]) =>
            /\ fpc = "done"
            /\ k = Len(history)
            /\ Len(delays) = k - 1

\* C4: a transport failure (fetch rejecting with a TypeError) on attempt k
\* below retries is followed by a wait of 1000 * 2^k ms and another attempt;
\* on the final attempt the call fails with that transport error.
TransportFailureRetried ==
    \A k \in 1..Len(history) :
        history[k].kind = "reject" =>
            IF k - 1 < retries
            THEN /\ Len(delays) >= k
                 /\ delays[k] = 1000 * Pow2(k - 1)
                 /\ (fpc = "done" => Len(history) > k)
                 /\ (Len(history) > k => fetchCalls >= k + 1)
            ELSE /\ fpc = "done"
                 /\ Len(history) = k
                 /\ Len(delays) = retries
                 /\ fResult = [kind |-> "error", error |-> Err("TypeError", MsgFetchFailed)]

TransportFailureRetriedWitness ==
    /\ fpc = "done"
    /\ retries = MAX_RETRIES
    /\ AllRejected
    /\ Len(history) = 4
    /\ delays = <<1000, 2000, 4000>>
    /\ fResult.error.name = "TypeError"

HttpErrorKindOf(status) ==
    IF status = 400 THEN Err("Error", MsgBadRequest)
    ELSE IF status = 401 THEN Err("Error", MsgUnauthorized)
    ELSE IF status = 403 THEN Err("Error", MsgForbidden)
    ELSE IF status = 404 THEN Err("Error", MsgNotFound)
    ELSE IF status >= 500 THEN Err("Error", MsgServerError)
    ELSE Err("Error", MsgApiFailed)

\* C6: a call ended by a response with a non-2xx HTTP status (a status code
\* of 100 or more; the status 0 of an error response is no HTTP status code)
\* fails with the error kind of that status: 400 BadRequest, 401 Unauthorized,
\* 403 Forbidden, 404 NotFound, 500 and above ServerError, any other status
\* the generic API-request-failed error.
HttpStatusMapping ==
    (/\ fpc = "done"
     /\ history # <<>>
     /\ Last(history).kind = "http"
     /\ Last(history).status >= 100) =>
        fResult = [kind |-> "error", error |-> HttpErrorKindOf(Last(history).status)]

\* C19: hard per-attempt timeout.  While an attempt is in flight, from the
\* sending of its request until its parsed body is available (fetch pending,
\* or response.json() pending), no more than the timeout has elapsed since
\* the request was sent: at the deadline the attempt has completed or has
\* been aborted.
HardAttemptTimeout ==
    fpc \in {"fetching", "reading"} => elapsed <= TicksPerTimeout

\* The error an attempt with the given outcome ends with.
ErrorOfAttempt(ev) ==
    CASE ev.kind = "abort"    -> Err("TimeoutError", MsgTimeout)
      [] ev.kind = "reject"   -> Err("TypeError", MsgFetchFailed)
      [] ev.kind = "http"     -> HttpError(ev.status)
      [] ev.kind = "badjson"  -> Err("SyntaxError", MsgBadJson)
      [] ev.kind = "noheader" -> Err("TypeError", MsgUndefProp)
      [] ev.kind = "body"     -> BodyError(ev.code, ev.msg)

AttemptsBounded ==
    /\ fetchCalls <= retries + 1
    /\ Len(history) <= fetchCalls
    /\ Len(delays) = IF fpc = "delaying" THEN fetchCalls
                     ELSE IF fpc = "idle" THEN 0 ELSE fetchCalls - 1
    /\ \A k \in 0..Len(delays) - 1 : delays[k + 1] = 1000 * Pow2(k)
    /\ fpc = "done"
       => /\ Len(history) = fetchCalls
          /\ \/ fResult.kind = "ok" /\ Last(history).kind = "body"
             \/ /\ fResult.kind = "error"
                /\ fResult.error = ErrorOfAttempt(Last(history))

\* C26: whatever the outcomes of the attempts (timeout, transport failure,
\* HTTP error, upstream error code, malformed body, success), a call makes
\* at most retries + 1 attempts, waits 1000 * 2^k ms before attempt k + 1,
\* ends with a result or with the error of the last attempt it made, and
\* does end once every attempt has its outcome.
BoundedRetryTermination ==
    /\ []AttemptsBounded
    /\ (fpc \in {"fetching", "reading", "delaying"}) ~> (fpc = "done")

BoundedRetryTerminationWitness ==
    /\ fpc = "done"
    /\ retries = 3
    /\ Len(history) = 4
    /\ history[1].kind = "abort"
    /\ history[2].kind = "reject"
    /\ history[3] = EvHttp(0)
    /\ history[4].kind = "badjson"
    /\ delays = <<1000, 2000, 4000>>
    /\ fResult.error.name = "SyntaxError"

(***************************************************************************)
(* Properties of the statistics aggregator                                 *)
(***************************************************************************)
FailedProbes == {i \in 1..Len(results) : results[i] = Fulfilled(Null)}
SucceededProbes == {i \in 1..Len(results) : results[i].status = "fulfilled" /\ results[i].value # Null}
IsSortedDesc(list) == \A a, b \in 1..Len(list) : a < b => list[a].count >= list[b].count
Elements(list) == {list[a] : a \in 1..Len(list)}
PositionOf(id) == CHOOSE i \in 1..Len(ids) : ids[i] = id

\* C7: partial-failure aggregation.  A finished fetchRegionStatsInternal run
\* that issued N >= 1 probes of which k failed: with k < N it resolved with
\* exactly N - k entries, the entries of the succeeded probes, sorted by count
\* descending; with k = N it threw.
PartialFailureAggregation ==
    (spc = "done" /\ job = "region" /\ Len(results) >= 1) =>
        LET n == Len(results)
            k == Cardinality(FailedProbes)
        IN  IF k < n
            THEN /\ sOut.kind = "ok"
                 /\ Len(sOut.list) = n - k
                 /\ Elements(sOut.list) = {results[i].value : i \in SucceededProbes}
                 /\ IsSortedDesc(sOut.list)
            ELSE sOut.kind = "error"

PartialFailureAggregationWitness ==
    /\ spc = "done"
    /\ job = "region"
    /\ Len(results) = 3
    /\ Cardinality(FailedProbes) = 1
    /\ sOut.kind = "ok"
    /\ Len(sOut.list) = 2
    /\ sOut.list[1].count > sOut.list[2].count
    /\ sOut.list[1].id > sOut.list[2].id

\* C8: a finished fetchTypeStatsInternal run in which none of the eight
\* probes succeeded threw instead of returning a result.
TypeStatsAllFailedThrows ==
    (spc = "done" /\ job = "type" /\ SucceededProbes = {}) => sOut.kind = "error"

\* C9: the list a statistics function returns is fixed by the probe results
\* alone: it holds exactly the entries of the succeeded probes, a larger count
\* before a smaller one and equal counts in input order; this holds in every
\* finished run, whatever the order in which the probes settled.
OutputOrderDeterministic ==
    (spc = "done" /\ sOut.kind = "ok") =>
        /\ Len(sOut.list) = Cardinality(SucceededProbes)
        /\ Elements(sOut.list) = {results[i].value : i \in SucceededProbes}
        /\ \A a, b \in 1..Len(sOut.list) :
              a < b =>
                 \/ sOut.list[a].count > sOut.list[b].count
                 \/ /\ sOut.list[a].count = sOut.list[b].count
                    /\ PositionOf(sOut.list[a].id) < PositionOf(sOut.list[b].id)

OutputOrderDeterministicWitness ==
    /\ spc = "done"
    /\ job = "type"
    /\ sOut.kind = "ok"
    /\ Len(sOut.list) = 7
    /\ sOut.list[1].count = sOut.list[2].count
    /\ sOut.list[1].id < sOut.list[2].id
    /\ sOut.list[7].count < sOut.list[1].count
    /\ sOut.list[7].id < sOut.list[1].id

(***************************************************************************)
(* Properties of getStatsSummary                                           *)
(***************************************************************************)
Succeeded(promise) == promise.kind = "ok" /\ promise.list # <<>>

\* C10: a finished getStatsSummary call, both of whose collections have
\* settled, returned a summary exactly when at least one of the two
\* collections succeeded (resolved with at least one entry, the test of line
\* 230); it failed only when both failed.
SummaryFailsOnlyIfBothFail ==
    (sumPc = "done" /\ regionP.kind # "none" /\ typeP.kind # "none") =>
        (summary.kind = "ok" <=> (Succeeded(regionP) \/ Succeeded(typeP)))

RECURSIVE CountsUpTo(_, _)
CountsUpTo(list, n) == IF n = 0 THEN 0 ELSE CountsUpTo(list, n - 1) + list[n].count
FirstOf(list, k) == [i \in 1..(IF Len(list) < k THEN Len(list) ELSE k) |-> list[i]]
ListedBeatUnlisted(top, list) ==
    \A i \in 1..Len(top) : \A j \in (Len(top) + 1)..Len(list) :
        top[i].count >= list[j].count

\* C11: a summary returned by getStatsSummary has totalCount equal to the sum
\* of the counts of all region entries, topRegions equal to the first
\* min(3, n) entries of the descending region list and topTypes equal to the
\* first min(3, m) entries of the descending type list; both have at most 3
\* entries and every listed count is at least every unlisted count.
SummaryTotalAndTops ==
    summary.kind = "ok" =>
        /\ summary.totalCount = CountsUpTo(regionP.list, Len(regionP.list))
        /\ summary.topRegions = FirstOf(regionP.list, 3)
        /\ summary.topTypes = FirstOf(typeP.list, 3)
        /\ Len(summary.topRegions) <= 3
        /\ Len(summary.topTypes) <= 3
        /\ IsSortedDesc(regionP.list)
        /\ IsSortedDesc(typeP.list)
        /\ ListedBeatUnlisted(summary.topRegions, regionP.list)
        /\ ListedBeatUnlisted(summary.topTypes, typeP.list)

SummaryTotalAndTopsWitness ==
    /\ summary.kind = "ok"
    /\ Len(regionP.list) = 4
    /\ Len(typeP.list) >= 4
    /\ Len(summary.topRegions) = 3
    /\ Len(summary.topTypes) = 3
    /\ summary.totalCount = 3
    /\ regionP.list[4].count = 0

(***************************************************************************)
(* Properties of the gateway functions                                     *)
(***************************************************************************)
Resolved200 == gPc = "done" /\ gSettled.kind = "ok"
HoldsNothing(data) == data.items # "present" \/ data.item.tag = "undefined"
HoldsObject(data) == data.items = "present" /\ data.item.tag = "object"
HoldsArray(data) == data.items = "present" /\ data.item.tag = "array"

\* C12: envelope normalisation.  A gateway function that returns the
\* extracted items of the body (getDetailImage, searchKeyword) returns an
\* array: empty when the body's items field is missing or holds no item, the
\* one-element array of the object when it holds one bare object, and the
\* same N objects in the same order when it holds an array of N objects; it
\* does not throw on any of these shapes.
EnvelopeNormalization ==
    (Resolved200 /\ gOp \in {"getDetailImage", "searchKeyword"}) =>
        LET data == gSettled.data IN
        /\ gOut.kind = "ok"
        /\ gOut.value.tag = "array"
        /\ HoldsNothing(data) => Len(gOut.value.arr) = 0
        /\ HoldsObject(data) => gOut.value.arr = <<data.item.obj>>
        /\ HoldsArray(data) =>
              /\ Len(gOut.value.arr) = Len(data.item.arr)
              /\ \A i \in 1..Len(data.item.arr) : gOut.value.arr[i] = data.item.arr[i]

EnvelopeNormalizationWitness ==
    /\ Resolved200
    /\ gOp = "getDetailImage"
    /\ HoldsObject(gSettled.data)
    /\ gSettled.data.item.obj = 2
    /\ gOut.kind = "ok"
    /\ gOut.value = JsArray(<<2>>)

OnlyWhiteSpace(s) == ~s.defined \/ \A i \in 1..Len(s.chars) : s.chars[i] \in WhiteSpace

\* C16: keyword validation short-circuit.  searchKeyword called with a
\* missing, empty or whitespace-only keyword has thrown the "Keyword is
\* required" error without calling fetchTourAPI: zero network attempts.
KeywordShortCircuit ==
    (gOp = "searchKeyword" /\ OnlyWhiteSpace(gArgs.keyword)) =>
        /\ gPc = "done"
        /\ gOut = Outcome("error", JsUndefined, -1, Err("Error", <<"Keyword", "is", "required">>))
        /\ gNetCalls = 0
        /\ gSettled.kind = "none"

KeywordShortCircuitWitness ==
    /\ gOp = "searchKeyword"
    /\ gArgs.keyword = Str(<<" ", "\t", " ">>)
    /\ gPc = "done"
    /\ gOut.kind = "error"
    /\ gNetCalls = 0

\* C17: a getDetailPetTour call whose fetchTourAPI call rejected (timeout,
\* network failure, quota exceeded, HTTP error) rejects with that error; it
\* does not return null.
PetTourErrorsPropagate ==
    (gOp = "getDetailPetTour" /\ gPc = "done" /\ gSettled.kind = "error") =>
        /\ gOut.kind = "error"
        /\ gOut.error = gSettled.error

ItemCount(data) ==
    IF HoldsObject(data) THEN 1
    ELSE IF HoldsArray(data) THEN Len(data.item.arr) ELSE 0
FirstOfBody(data) ==
    IF HoldsObject(data) THEN data.item.obj ELSE data.item.arr[1]
NotFoundOf(op) ==
    IF op = "getDetailCommon"
    THEN <<"Tour", "detail", "not", "found">>
    ELSE <<"Tour", "intro", "not", "found">>

\* C18: single-entity lookups.  When fetchTourAPI resolved, getDetailCommon
\* and getDetailIntro throw their not-found error if the body holds zero
\* items, and return the first item if it holds one or more; they never
\* return an empty or undefined value.
DetailLookupNotFound ==
    (Resolved200 /\ gOp \in {"getDetailCommon", "getDetailIntro"}) =>
        IF ItemCount(gSettled.data) = 0
        THEN gOut = Outcome("error", JsUndefined, -1, Err("Error", NotFoundOf(gOp)))
        ELSE /\ gOut.kind = "ok"
             /\ gOut.value = JsObject(FirstOfBody(gSettled.data))

DetailLookupNotFoundWitness ==
    /\ Resolved200
    /\ gOp = "getDetailCommon"
    /\ gSettled.data.items = "present"
    /\ gSettled.data.item = JsArray(<<>>)
    /\ gOut.kind = "error"
    /\ gOut.error.message = <<"Tour", "detail", "not", "found">>

(***************************************************************************)
(* Properties of the filter codec                                          *)
(***************************************************************************)
DefaultFill(params) ==
    [params EXCEPT !.sort = IF Blank(params.sort) THEN Str(<<"latest">>) ELSE params.sort,
                   !.page = IF params.page.kind = "undefined" THEN Num(1) ELSE params.page]
WithNonDefaultValues(state) ==
    /\ state.keyword.defined => state.keyword.chars # <<>>
    /\ state.areaCode.defined => state.areaCode.chars # <<>>
    /\ state.contentTypeId.tag = "array" => state.contentTypeId.arr # <<>>
    /\ state.petFriendly # "false"
AtAllDefaults(state) ==
    /\ Blank(state.keyword)
    /\ Blank(state.areaCode)
    /\ state.contentTypeId = CtUndefined
    /\ state.petFriendly # "true"
    /\ Blank(state.petSize)
    /\ state.sort \in {NoString, Str(<<"latest">>)}
    /\ state.page \in {NoNumber, Num(1)}
RoundTripped == cPc = "parsed" /\ cFrom = "state"

NoSortNoPage == ~cParams.sort.defined /\ ~cParams.page.defined
WritesDefault(str) ==
    LET Among(pairs) ==
            \E i \in 1..Len(pairs) :
                \/ pairs[i] = [key |-> "sort", value |-> <<"latest">>]
                \/ pairs[i] = [key |-> "page", value |-> <<"1">>]
    IN  Among(QueryPairs(str))

\* C14 as stated: a query string with no sort and no page parameter parses to
\* sort = latest and page = 1, and buildFilterQuery never writes sort=latest
\* or page=1.
DefaultsFilledOnParse ==
    /\ (cPc = "parsed" /\ NoSortNoPage) =>
            /\ cParsed.sort = Str(<<"latest">>)
            /\ cParsed.page = Num(1)
    /\ cFrom = "state" => ~WritesDefault(cQuery)

\* C14 amended: a query string with no sort and no page parameter parses to
\* sort = latest and to an undefined page (only the sort default is filled
\* in by parseFilterParams), and buildFilterQuery never writes sort=latest or
\* page=1.
SortDefaultFilledOnParse ==
    /\ (cPc = "parsed" /\ NoSortNoPage) =>
            /\ cParsed.sort = Str(<<"latest">>)
            /\ cParsed.page = NoNumber
    /\ cFrom = "state" => ~WritesDefault(cQuery)

SortDefaultFilledOnParseWitness ==
    /\ RoundTripped
    /\ cState.sort = Str(<<"latest">>)
    /\ cState.page = Num(1)
    /\ cQuery = <<"keyword", "=", "a">>
    /\ NoSortNoPage
    /\ cParsed.sort = Str(<<"latest">>)
    /\ cParsed.page = NoNumber

ParsesBelowOne(pageParam) ==
    /\ ~Blank(pageParam)
    /\ ParseInt(pageParam.chars).kind = "number"
    /\ ParseInt(pageParam.chars).n < 1

\* C15: a page parameter that parses to an integer below 1 (0 or negative)
\* gives page 1, and no result of parseFilterParams has a page below 1: the
\* page is undefined or a number that is at least 1.
PageClamped ==
    cPc = "parsed" =>
        /\ cParsed.page.kind \in {"undefined", "number"}
        /\ cParsed.page.kind = "number" => cParsed.page.n >= 1
        /\ ParsesBelowOne(cParams.page) => cParsed.page = Num(1)

PageClampedWitness ==
    /\ cPc = "parsed"
    /\ cFrom = "url"
    /\ cParams.page = Str(<<"-", "1", "2">>)
    /\ cParsed.page = Num(1)

(***************************************************************************)
(* Properties of the coordinate conversion                                 *)
(***************************************************************************)
BothNumeric == kRaw.x.kind = "number" /\ kRaw.y.kind = "number"
RawXInRange == kRaw.x.n >= 1240000000 /\ kRaw.x.n <= 1320000000
RawYInRange == kRaw.y.n >= 330000000 /\ kRaw.y.n <= 430000000
IsRawOver(d, raw) ==
    /\ d.kind = "number"
    /\ d.frac \in 0..9999999
    /\ d.whole \in -214..214
    /\ d.whole * 10000000 + d.frac = raw
Within(d, lo, hi) ==
    /\ d.whole >= lo
    /\ d.whole < hi \/ (d.whole = hi /\ d.frac = 0)
Reports(error) == \E i \in 1..Len(kOut.errors) : kOut.errors[i] = error

\* C20: coordinate bounds.  For raw integers rawX in [1240000000, 1320000000]
\* and rawY in [330000000, 430000000] convertKATECToWGS84 returns raw /
\* 10,000,000 with longitude in [124, 132] and latitude in [33, 43]; for
\* numeric input outside that raw range validateCoordinateConversion returns
\* isValid = false with the range error of each coordinate that is outside.
CoordinateBounds ==
    /\ (kOp = "convert" /\ BothNumeric /\ RawXInRange /\ RawYInRange) =>
            /\ IsRawOver(kOut.lng, kRaw.x.n)
            /\ IsRawOver(kOut.lat, kRaw.y.n)
            /\ Within(kOut.lng, 124, 132)
            /\ Within(kOut.lat, 33, 43)
    /\ (kOp = "validate" /\ BothNumeric /\ ~(RawXInRange /\ RawYInRange)) =>
            /\ kOut.isValid = FALSE
            /\ ~RawXInRange => Reports("RAW_LNG_RANGE")
            /\ ~RawYInRange => Reports("RAW_LAT_RANGE")

CoordinateBoundsWitness ==
    /\ kOp = "validate"
    /\ kRaw.x = Num(1320000001)
    /\ kRaw.y = Num(430000000)
    /\ kArgs.mapx = Str(<<"1", "3", "2", "0", "0", "0", "0", "0", "0", "1">>)
    /\ kOut.isValid = FALSE
    /\ kOut.errors = <<"RAW_LNG_RANGE", "LNG_RANGE">>

(***************************************************************************)
(* Properties of the bookmark data access                                  *)
(***************************************************************************)
\* C21: adding a content id that the signed-in user has already bookmarked
\* returns true without an error, and the table then holds exactly one row
\* for that user and content id.  The case is the one in which the store
\* answers the queries of the call (no store fault).
DuplicateAddIsBenign ==
    LET row == [user_id |-> Users[bLast.userId],
                content_id |-> bLast.given.contentId]
        Count(rows) == Cardinality({i \in 1..Len(rows) : rows[i] = row})
    IN  (/\ bLast.op = "addBookmark"
         /\ bLast.userId \in DOMAIN Users
         /\ bLast.given.fault = "none"
         /\ Count(bLast.before) >= 1)
        => /\ bLast.reply.value = "true"
           /\ bLast.reply.error = "none"
           /\ Count(bookmarks) = 1

DuplicateAddIsBenignWitness ==
    /\ bLast.op = "addBookmark"
    /\ bLast.userId = "clerk_a"
    /\ bLast.given.fault = "none"
    /\ \E i \in 1..Len(bLast.before) :
          bLast.before[i] = [user_id |-> "user_a",
                             content_id |-> bLast.given.contentId]
    /\ Len(bLast.before) = 3
    /\ bookmarks = bLast.before

\* Position in the table of the row of the calling user for a content id
\* (0 when there is none).
RowOf(contentId) ==
    LET at == {i \in 1..Len(bookmarks) :
                  bookmarks[i] = [user_id |-> Users[bLast.userId],
                                  content_id |-> contentId]}
    IN  IF at = {} THEN 0 ELSE CHOOSE i \in at : TRUE

\* C22: getUserBookmarksWithDetails never fails because some detail lookups
\* fail; when the user's bookmarks were read, it returns exactly the
\* bookmarks whose lookup succeeded, the most recently created first.
PartialDetailFailureTolerated ==
    bLast.op = "getUserBookmarksWithDetails"
    => /\ bLast.reply.error = "none"
       /\ (bLast.userId \in DOMAIN Users /\ bLast.given.fault = "none")
          => LET list == bLast.reply.list
             IN  /\ \A i \in 1..Len(list) :
                       /\ RowOf(list[i].contentid) > 0
                       /\ list[i].contentid \notin bLast.given.failed
                 /\ \A c \in {"c1", "c2"} :
                       (RowOf(c) > 0 /\ c \notin bLast.given.failed)
                       => Cardinality({i \in 1..Len(list) :
                                          list[i].contentid = c}) = 1
                 /\ \A i, j \in 1..Len(list) :
                       i < j => RowOf(list[i].contentid)
                                   > RowOf(list[j].contentid)

PartialDetailFailureToleratedWitness ==
    /\ bLast.op = "getUserBookmarksWithDetails"
    /\ bLast.userId = "clerk_a"
    /\ bLast.given.fault = "none"
    /\ bLast.given.failed = {"c2"}
    /\ Len(bookmarks) = 3
    /\ bLast.reply.list = <<[contentid |-> "c1"]>>

\* C23: removeBookmarksBatch on a non-empty list attempts every removal,
\* counts the removals that succeeded in deletedCount, reports success
\* exactly when deletedCount >= 1 and an error message exactly when some
\* removal failed; on an empty list it attempts nothing and returns
\* success = false with deletedCount = 0.
BatchSettlesAll ==
    bLast.op = "removeBookmarksBatch"
    => LET contentIds == bLast.given.contentIds
           \* removeBookmark alone, on the table as the batch found it;
           \* the removals of a batch do not disturb one another's outcome
           succeeded ==
               {i \in 1..Len(contentIds) :
                   RemoveBookmark(bLast.userId, contentIds[i],
                                  bLast.given.faults[i],
                                  bLast.before).error = "none"}
           reply == bLast.reply
       IN  IF Len(contentIds) = 0
           THEN /\ reply.success = FALSE
                /\ reply.deletedCount = 0
                /\ reply.attempted = 0
                /\ bookmarks = bLast.before
           ELSE /\ reply.attempted = Len(contentIds)
                /\ reply.deletedCount = Cardinality(succeeded)
                /\ reply.success <=> reply.deletedCount >= 1
                /\ reply.error # "none" <=> Cardinality(succeeded) < Len(contentIds)
                /\ \A i \in succeeded, r \in 1..Len(bookmarks) :
                      bookmarks[r] # [user_id |-> Users[bLast.userId],
                                      content_id |-> contentIds[i]]

BatchSettlesAllWitness ==
    /\ bLast.op = "removeBookmarksBatch"
    /\ bLast.userId = "clerk_a"
    /\ bLast.given.contentIds = <<"c1", "c2">>
    /\ bLast.given.faults = <<"bookmarks", "none">>
    /\ Len(bLast.before) = 3
    /\ Len(bookmarks) = 2
    /\ bLast.reply.success
    /\ bLast.reply.deletedCount = 1
    /\ bLast.reply.error = "PARTLY_FAILED"

\* C29: without a signed-in user addBookmark and removeBookmark throw the
\* login-required error, getBookmark returns false and getUserBookmarks
\* returns an empty list; none of them issues a query to the store, and the
\* table is unchanged.
UnauthenticatedTouchesNothing ==
    (bLast.op \in {"getBookmark", "addBookmark", "removeBookmark",
                   "getUserBookmarks"}
     /\ bLast.userId = NoUser)
    => /\ bLast.reply.calls = <<>>
       /\ bookmarks = bLast.before
       /\ bLast.op \in {"addBookmark", "removeBookmark"}
          => bLast.reply.error = "LOGIN_REQUIRED"
       /\ bLast.op = "getBookmark"
          => bLast.reply.value = "false" /\ bLast.reply.error = "none"
       /\ bLast.op = "getUserBookmarks"
          => bLast.reply.list = <<>> /\ bLast.reply.error = "none"

UnauthenticatedTouchesNothingWitness ==
    /\ bLast.op = "removeBookmark"
    /\ bLast.userId = NoUser
    /\ bLast.given.fault = "none"
    /\ Len(bookmarks) = 3
    /\ bLast.reply.error = "LOGIN_REQUIRED"

(***************************************************************************)
(* Properties of BookmarkButton                                            *)
(***************************************************************************)
\* C27: one BookmarkButton awaits at most one server action at a time and a
\* click during a pending check or toggle issues no request; after a
\* successful toggle the displayed isBookmarked tells whether the table
\* holds the bookmark (true after an add, false after a remove); after a
\* failed toggle the displayed isBookmarked is what it was.
OneActionAtATime ==
    LET held == \E i \in 1..Len(bookmarks) :
                   bookmarks[i] = [user_id |-> Users[bLast.userId],
                                   content_id |-> ButtonContentId]
        failed == \/ bLast.given.fault \in {"action", "response"}
                  \/ ~bLast.reply.success
    IN  /\ Len(awaited) <= 1
        /\ bLast.op = "click"
           => IF bLast.reply.issued
              THEN awaited = <<[action |-> "toggleBookmark",
                                isBookmarked |-> bLast.shown]>>
              ELSE Len(awaited) = 1 /\ button.isLoading
        /\ (bLast.op = "toggleBookmark" /\ ~failed)
           => /\ button.isBookmarked = held
              /\ button.isBookmarked = ~bLast.given.isBookmarked
        /\ (bLast.op = "toggleBookmark" /\ failed)
           => button.isBookmarked = bLast.shown

\* A remove that succeeded although another tab had removed the bookmark
\* while the button still showed it.
OneActionAtATimeWitness ==
    /\ bLast.op = "toggleBookmark"
    /\ bLast.given.fault = "none"
    /\ bLast.reply.success
    /\ bLast.given.isBookmarked
    /\ \A i \in 1..Len(bLast.before) :
          bLast.before[i] # [user_id |-> "user_a",
                             content_id |-> ButtonContentId]
    /\ ~button.isBookmarked
    /\ awaited = <<>>

(***************************************************************************)
(* Properties of TourFilters                                               *)
(***************************************************************************)
\* C24: a filter change made through TourFilters (area, type toggle, pet
\* toggle, pet size, sort) pushes a query without a page parameter, so the
\* page is back at 1, and with the search keyword it found.
FilterChangeResetsPage ==
    LET Among(pairs) == \E i \in 1..Len(pairs) : pairs[i].key = "page"
    IN  fLast.op \in {"area", "type", "pet", "petSize", "sort"}
        => /\ ~Among(QueryPairs(fQuery))
           /\ CurrentParams.page = NoNumber
           /\ CurrentParams.keyword = fLast.keyword

FilterChangeResetsPageWitness ==
    /\ fLast.op = "sort"
    /\ fLast.page = Num(2)
    /\ fLast.keyword = Str(<<"a", "&">>)
    /\ CurrentParams.sort = Str(<<"name">>)
    /\ CurrentParams.contentTypeId = CtArray(<<<<"1", "4">>, <<"1", "2">>>>)

\* C28: after any sequence of TourFilters actions from the empty filter,
\* petSize is set only if petFriendly is true.
PetSizeOnlyWithPetFriendly ==
    ~Blank(CurrentParams.petSize) => CurrentParams.petFriendly = "true"

(***************************************************************************)
(* Properties of the metrics stores                                        *)
(***************************************************************************)
\* C25: each metrics store holds at most its capacity (API 100, map 100,
\* performance 50), and it holds the most recent of the metrics added since
\* it was last cleared, in the order they were added: an add on a full
\* store drops exactly the oldest one.  Outside development the stores
\* collect nothing.
MetricsBounded ==
    \A store \in {"api", "map", "performance"} :
        LET capacity == IF store = "performance" THEN 50 ELSE 100
            kept == IF added[store] < capacity THEN added[store] ELSE capacity
        IN  /\ Len(metrics[store]) <= capacity
            /\ nodeEnv = "development"
               => metrics[store] =
                     [i \in 1..kept |-> added[store] - kept + i]
            /\ nodeEnv # "development" => metrics[store] = <<>>

MetricsBoundedWitness ==
    /\ nodeEnv = "development"
    /\ added["performance"] = 52
    /\ Len(metrics["performance"]) = 50
    /\ metrics["performance"][1] = 3
    /\ metrics["performance"][50] = 52

Init ==
    /\ FetchInit /\ StatsInit /\ SummaryInit /\ GatewayInit /\ CodecInit
    /\ CoordInit /\ BookmarkInit /\ FilterInit /\ MetricsInit

\* one call of fetchTourAPI
Next == FetchNext

Spec == Init /\ [][Next]_vars

\* one run of fetchRegionStatsInternal or fetchTypeStatsInternal
\* Every attempt has its outcome and every timer fires: a step that can be
\* taken is taken.
FetchFairSpec == Init /\ [][Next]_vars /\ WF_vars(Next)
StatsSpec == Init /\ [][StatsNext]_vars

\* one call of getStatsSummary
SummarySpec == Init /\ [][SummaryNext]_vars

\* one call of a gateway function of tour-api.ts
GatewaySpec == Init /\ [][GatewayNext]_vars

\* one use of the filter codec: a state is serialised and parsed back, or a
\* typed URL is parsed
CodecSpec == Init /\ [][CodecNext]_vars

\* one call of convertKATECToWGS84 or validateCoordinateConversion
CoordSpec == Init /\ [][CoordNext]_vars

BookmarkSpec == Init /\ [][BookmarkNext]_vars
ButtonSpec == Init /\ [][ButtonNext]_vars
FilterSpec == Init /\ [][FilterNext]_vars
MetricsSpec == Init /\ [][MetricsNext]_vars
====
